---- MODULE Spec2Model ----
(***************************************************************************)
(* State-machine model of the persistence layers of asshm:                *)
(* core/session_manager.py (Session, SessionManager), the part of         *)
(* core/config_manager.py that the session manager reads, and core/ipam.py *)
(* (IPAMEntry, Subnet, IPAMManager).                                       *)
(*                                                                         *)
(* A Python dict is modelled as a sequence of [key, val] pairs so that    *)
(* insertion order and the relation between a key and the object stored   *)
(* under it are both part of the state.  A JSON document is modelled by   *)
(* the value json.load returns for it.  The wall clock is counted in      *)
(* ticks; strftime("%Y%m%d_%H%M%S") keeps whole seconds only, isoformat   *)
(* keeps the tick.                                                         *)
(***************************************************************************)
EXTENDS Integers, Sequences, FiniteSets, TLC

VARIABLES sessions, session_file, backups, config, config_file, now, last,
          streak, numSaves, entries, subnets, ipam_disk, scan

vars == <<sessions, session_file, backups, config, config_file, now, last,
          streak, numSaves, entries, subnets, ipam_disk, scan>>

(* the state of the IPAMManager: its two dicts, its two files, its scan *)
ipamVars == <<entries, subnets, ipam_disk, scan>>

(* the state of the SessionManager and of the objects it reads *)
sessionVars == <<sessions, session_file, backups, config, config_file, now,
                 streak, numSaves>>

----------------------------------------------------------------------------
(* Bounds of the model *)

MaxClock == 2
TicksPerSecond == 2
MaxSaves == 2
MaxBackupsCfg == 1
MaxEntries == 2
MaxSubnets == 2
MaxRows == 3
MaxConfigOps == 3

(* Program constants *)

DefaultMaxBackups == 5

----------------------------------------------------------------------------
(* Values *)

None == <<>>
NoneSession == [none |-> TRUE]
NoFile == [exists |-> FALSE]

Names == { <<>>, <<" ">>, <<"a">>, <<"b">> }

(* names passed to the operations that look a name up: the names in use and
   one that is never stored *)
LookupNames == { <<" ">>, <<"a">>, <<"b">> }

Profiles ==
  { [host |-> "h1", username |-> "", password |-> "", group |-> "",
     tags |-> <<>>, description |-> "", key_file |-> "", params |-> ""],
    [host |-> "h2", username |-> "u", password |-> "pw", group |-> "g",
     tags |-> <<"t1", "t2">>, description |-> "d", key_file |-> "k.ppk",
     params |-> "-v"] }

----------------------------------------------------------------------------
(* Python helpers *)

RECURSIVE lstrip(_)
lstrip(s) ==
  IF s = <<>> THEN <<>>
  ELSE IF Head(s) = " " THEN lstrip(Tail(s)) ELSE s

RECURSIVE rstrip(_)
rstrip(s) ==
  IF s = <<>> THEN <<>>
  ELSE IF s[Len(s)] = " " THEN rstrip(SubSeq(s, 1, Len(s) - 1)) ELSE s

strip(s) == rstrip(lstrip(s))

(* d.get(k, default) on a JSON object *)
dict_get(d, k, default) == IF k \in DOMAIN d THEN d[k] ELSE default

(* seq[:stop] *)
PySliceTo(seq, stop) ==
  LET n == Len(seq)
      e == IF stop < 0 THEN (IF stop + n < 0 THEN 0 ELSE stop + n)
           ELSE (IF stop > n THEN n ELSE stop)
  IN SubSeq(seq, 1, e)

Min(S) == CHOOSE x \in S : \A y \in S : x <= y

RECURSIVE sorted(_)
sorted(S) ==
  IF S = {} THEN <<>> ELSE <<Min(S)>> \o sorted(S \ {Min(S)})

Range(seq) == { seq[i] : i \in 1 .. Len(seq) }

(* datetime.now().strftime("%Y%m%d_%H%M%S"): second resolution *)
strftime(t) == t \div TicksPerSecond

(* datetime.now().isoformat(): full resolution, a string (never None) *)
isoformat(t) == <<t>>

----------------------------------------------------------------------------
(* The sessions dict: name -> Session, in insertion order *)

Keys(d) == { d[i].key : i \in 1 .. Len(d) }

Index(d, k) == CHOOSE i \in 1 .. Len(d) : d[i].key = k

DictSet(d, k, v) ==
  IF k \in Keys(d)
    THEN [ d EXCEPT ![Index(d, k)] = [key |-> k, val |-> v] ]
    ELSE Append(d, [key |-> k, val |-> v])

DictDel(d, k) ==
  LET keep(e) == e.key # k IN SelectSeq(d, keep)

----------------------------------------------------------------------------
(* class Session *)

Session(name, host, username, password, group, tags, description, key_file, params) ==
  [ name |-> name, host |-> host, username |-> username,
    password |-> password, group |-> group,
    tags |-> IF tags = None THEN <<>> ELSE tags,
    description |-> description,
    last_connection |-> None, connection_count |-> 0,
    key_file |-> key_file, params |-> params ]

to_dict(s) ==
  [ name |-> s.name, host |-> s.host, username |-> s.username,
    password |-> s.password, group |-> s.group, tags |-> s.tags,
    description |-> s.description, last_connection |-> s.last_connection,
    connection_count |-> s.connection_count, key_file |-> s.key_file,
    params |-> s.params ]

(* data["name"] and data["host"] raise KeyError when missing *)
from_dict_raises(data) == ~ ({"name", "host"} \subseteq DOMAIN data)

(* from_dict without lines 56-57: the connection statistics are not restored *)
from_dict_no_stats(data) ==
  Session(data["name"], data["host"],
          dict_get(data, "username", ""),
          dict_get(data, "password", ""),
          dict_get(data, "group", ""),
          dict_get(data, "tags", <<>>),
          dict_get(data, "description", ""),
          dict_get(data, "key_file", ""),
          dict_get(data, "params", ""))

from_dict(data) ==
  LET s == Session(data["name"], data["host"],
                   dict_get(data, "username", ""),
                   dict_get(data, "password", ""),
                   dict_get(data, "group", ""),
                   dict_get(data, "tags", <<>>),
                   dict_get(data, "description", ""),
                   dict_get(data, "key_file", ""),
                   dict_get(data, "params", ""))
  IN [ s EXCEPT !.last_connection = dict_get(data, "last_connection", None),
                !.connection_count = dict_get(data, "connection_count", 0) ]

----------------------------------------------------------------------------
(* JSON values of the configuration.  A JSON object is a function from its
   keys; any other value carries its type, so that isinstance(v, dict) can
   be asked of every value. *)

JInt(n) == [ scalar |-> "int", value |-> n ]

JStr(text) == [ scalar |-> "str", value |-> text ]

JBool(b) == [ scalar |-> "bool", value |-> b ]

(* isinstance(v, dict) *)
isinstance_dict(v) == "scalar" \notin DOMAIN v

(* class ConfigManager *)

DefaultConfig ==
  [ general |-> [putty_path |-> JStr(""), winscp_path |-> JStr(""),
                 default_protocol |-> JStr("ssh"),
                 save_passwords |-> JBool(TRUE)],
    ui |-> [show_toolbar |-> JBool(TRUE), show_statusbar |-> JBool(TRUE),
            font_size |-> JInt(10), theme |-> JStr("system")],
    ipam |-> [enabled |-> JBool(TRUE),
              subnet_mask |-> JStr("255.255.255.0")] ]

(* get raises TypeError: "key in self.config[section]" at line 84 when the
   section holds a number or a boolean.  (A section that holds a string
   would be searched for the key as a substring; no file of the model has
   one.) *)
config_get_raises(cfg, section, key) ==
  /\ section \in DOMAIN cfg
  /\ ~ isinstance_dict(cfg[section])

(* ConfigManager.get as its caller sees it: a value, or an exception *)
get(cfg, section, key, default) ==
  IF config_get_raises(cfg, section, key)
    THEN [ raised |-> TRUE, value |-> default ]
  ELSE IF section \in DOMAIN cfg /\ key \in DOMAIN cfg[section]
    THEN [ raised |-> FALSE, value |-> cfg[section][key] ]
  ELSE [ raised |-> FALSE, value |-> default ]

(* the value get returns to a caller it does not fail *)
config_get(cfg, section, key, default) ==
  get(cfg, section, key, default).value

(* set raises TypeError: item assignment at line 102 on a number or a
   boolean *)
config_set_raises(cfg, section, key) ==
  /\ section \in DOMAIN cfg
  /\ ~ isinstance_dict(cfg[section])

config_set(cfg, section, key, value) ==
  LET c1 == IF section \in DOMAIN cfg THEN cfg
            ELSE (section :> <<>>) @@ cfg
  IN [ c1 EXCEPT ![section] = (key :> value) @@ c1[section] ]

(* the loop of lines 112-118 over the keys of source not yet visited *)
RECURSIVE merge_items(_, _, _)
merge_items(target, source, keys) ==
  IF keys = {} THEN target
  ELSE LET key == CHOOSE k \in keys : TRUE
           value == source[key]
           merged ==
             IF /\ key \in DOMAIN target
                /\ isinstance_dict(target[key])
                /\ isinstance_dict(value)
               THEN [ target EXCEPT
                        ![key] = merge_items(target[key], value,
                                             DOMAIN value) ]
               ELSE (key :> value) @@ target
       IN merge_items(merged, source, keys \ {key})

(* _merge_configs replacing every key of the file: target.update(source) *)
_merge_configs_update(target, source) == source @@ target

_merge_configs(target, source) == merge_items(target, source, DOMAIN source)

(* The configuration file: absent, not JSON, or the document json.load
   returns for it. *)
NoJson == [ exists |-> TRUE, parses |-> FALSE ]

JsonFile(data) == [ exists |-> TRUE, parses |-> TRUE, data |-> data ]

(* load leaves the configuration alone when the file is absent (line 52),
   when json.load raises, and when the document is no object, so that
   source.items() raises at line 112 before anything is merged; all three
   end in the handler of line 59.  It never raises. *)
load(cfg, file) ==
  IF ~ file.exists THEN cfg
  ELSE IF ~ file.parses THEN cfg
  ELSE IF ~ isinstance_dict(file.data) THEN cfg
  ELSE _merge_configs(cfg, file.data)

(* save: json.dump(self.config) *)
save(cfg) == JsonFile(cfg)

----------------------------------------------------------------------------
(* class SessionManager: storage *)

(* one pass of the loop body of _load_sessions over data[i..] *)
RECURSIVE load_from(_, _, _)
load_from(data, i, acc) ==
  IF i > Len(data) THEN acc
  ELSE IF from_dict_raises(data[i]) THEN load_from(data, i + 1, acc)
  ELSE LET session == from_dict(data[i])
       IN load_from(data, i + 1, DictSet(acc, session.name, session))

(* a fresh SessionManager: self.sessions = {} then _load_sessions() *)
_load_sessions(file) ==
  IF file = NoFile THEN <<>> ELSE load_from(file.data, 1, <<>>)

(* the backups directory after _create_backup; b maps the timestamp in a
   backup's file name to the content of that backup *)
_create_backup(file, b, cfg, t) ==
  IF file = NoFile THEN b
  ELSE
    LET max_backups == config_get(cfg, "general", "max_backups",
                                  JInt(DefaultMaxBackups)).value
        timestamp == strftime(t)
        copied == (timestamp :> file.data) @@ b
        backup_files == sorted(DOMAIN copied)
        old_files == IF Len(backup_files) > max_backups
                       THEN Range(PySliceTo(backup_files, 0 - max_backups))
                       ELSE {}
    IN [ f \in (DOMAIN copied) \ old_files |-> copied[f] ]

(* save_sessions writing the file before it takes the backup *)
save_sessions_write_first(ss, file, b, cfg, t) ==
  LET session_data == [ i \in 1 .. Len(ss) |-> to_dict(ss[i].val) ]
      written == [exists |-> TRUE, data |-> session_data]
  IN [ session_file |-> written,
       backups |-> _create_backup(written, b, cfg, t) ]

(* the state of the disk after save_sessions *)
save_sessions(ss, file, b, cfg, t) ==
  LET session_data == [ i \in 1 .. Len(ss) |-> to_dict(ss[i].val) ]
  IN [ session_file |-> [exists |-> TRUE, data |-> session_data],
       backups |-> _create_backup(file, b, cfg, t) ]

----------------------------------------------------------------------------
(* save_sessions on a file system that fails.  A fault names the exception,
   if any, that the copy into the backups directory (mkdir, shutil.copy2)
   and each unlink of an old backup raise. *)

NoFault == [copy |-> "ok", unlink |-> "ok"]

Faults ==
  { NoFault,
    [copy |-> "PermissionError", unlink |-> "ok"],
    [copy |-> "ok", unlink |-> "PermissionError"],
    [copy |-> "ok", unlink |-> "OSError"] }

(* _create_backup without the handler of lines 147-148: what the copy or an
   unlink raises leaves the function *)
_create_backup_unguarded(file, b, cfg, t, fault) ==
  IF file = NoFile THEN [backups |-> b, raised |-> FALSE]
  ELSE
    LET max_backups == config_get(cfg, "general", "max_backups",
                                  JInt(DefaultMaxBackups)).value
        timestamp == strftime(t)
        copied == (timestamp :> file.data) @@ b
        backup_files == sorted(DOMAIN copied)
        old_files == IF Len(backup_files) > max_backups
                       THEN Range(PySliceTo(backup_files, 0 - max_backups))
                       ELSE {}
    IN IF fault.copy # "ok" THEN [backups |-> b, raised |-> TRUE]
       ELSE IF old_files = {} \/ fault.unlink = "ok"
         THEN [backups |-> [ f \in (DOMAIN copied) \ old_files |-> copied[f] ],
               raised |-> FALSE]
       ELSE [backups |-> copied, raised |-> TRUE]

(* the backups directory after _create_backup, and whether an exception
   leaves the function.  A failing copy is caught at line 147, before
   anything is pruned; PermissionError from an unlink is caught at line 144
   and the loop goes on to the next file; any other exception from an unlink
   ends the loop and is caught at line 147. *)
_create_backup_faulty(file, b, cfg, t, fault) ==
  IF file = NoFile THEN [backups |-> b, raised |-> FALSE]
  ELSE
    LET max_backups == config_get(cfg, "general", "max_backups",
                                  JInt(DefaultMaxBackups)).value
        timestamp == strftime(t)
        copied == (timestamp :> file.data) @@ b
        backup_files == sorted(DOMAIN copied)
        old_files == IF Len(backup_files) > max_backups
                       THEN Range(PySliceTo(backup_files, 0 - max_backups))
                       ELSE {}
    IN IF fault.copy # "ok" THEN [backups |-> b, raised |-> FALSE]
       ELSE IF old_files = {} \/ fault.unlink = "ok"
         THEN [backups |-> [ f \in (DOMAIN copied) \ old_files |-> copied[f] ],
               raised |-> FALSE]
       ELSE [backups |-> copied, raised |-> FALSE]

(* the state of the disk after save_sessions under a fault, and whether an
   exception leaves save_sessions: _create_backup is called at line 105,
   outside the try of line 107 *)
save_sessions_faulty(ss, file, b, cfg, t, fault) ==
  LET bk == _create_backup_faulty(file, b, cfg, t, fault)
      session_data == [ i \in 1 .. Len(ss) |-> to_dict(ss[i].val) ]
  IN IF bk.raised
       THEN [ session_file |-> file, backups |-> bk.backups, raised |-> TRUE ]
       ELSE [ session_file |-> [exists |-> TRUE, data |-> session_data],
              backups |-> bk.backups, raised |-> FALSE ]

----------------------------------------------------------------------------
(* class SessionManager: operations.  Each returns whether it raised, the
   sessions dict and the disk state it leaves. *)

Outcome(raised, saved, ss, disk) ==
  [ raised |-> raised, saved |-> saved, sessions |-> ss,
    session_file |-> disk.session_file, backups |-> disk.backups ]

Disk(file, b) == [ session_file |-> file, backups |-> b ]

(* add_session without the check of line 158: an existing name is overwritten *)
add_session_overwrite(ss, file, b, cfg, t, session) ==
  IF strip(session.name) = <<>>
    THEN Outcome(TRUE, FALSE, ss, Disk(file, b))
  ELSE LET ss1 == DictSet(ss, session.name, session)
       IN Outcome(FALSE, TRUE, ss1, save_sessions(ss1, file, b, cfg, t))

(* add_session without the assignment of line 161: saved but never stored *)
add_session_no_insert(ss, file, b, cfg, t, session) ==
  IF strip(session.name) = <<>>
    THEN Outcome(TRUE, FALSE, ss, Disk(file, b))
  ELSE IF session.name \in Keys(ss)
    THEN Outcome(TRUE, FALSE, ss, Disk(file, b))
  ELSE Outcome(FALSE, TRUE, ss, save_sessions(ss, file, b, cfg, t))

(* add_session testing "not session.name" instead of the stripped name *)
add_session_no_strip(ss, file, b, cfg, t, session) ==
  IF session.name = <<>>
    THEN Outcome(TRUE, FALSE, ss, Disk(file, b))
  ELSE IF session.name \in Keys(ss)
    THEN Outcome(TRUE, FALSE, ss, Disk(file, b))
  ELSE LET ss1 == DictSet(ss, session.name, session)
       IN Outcome(FALSE, TRUE, ss1, save_sessions(ss1, file, b, cfg, t))

add_session(ss, file, b, cfg, t, session) ==
  IF strip(session.name) = <<>>
    THEN Outcome(TRUE, FALSE, ss, Disk(file, b))
  ELSE IF session.name \in Keys(ss)
    THEN Outcome(TRUE, FALSE, ss, Disk(file, b))
  ELSE LET ss1 == DictSet(ss, session.name, session)
       IN Outcome(FALSE, TRUE, ss1, save_sessions(ss1, file, b, cfg, t))

(* update_session carrying the old connection statistics over *)
update_session_keep_stats(ss, file, b, cfg, t, session) ==
  IF strip(session.name) = <<>>
    THEN Outcome(TRUE, FALSE, ss, Disk(file, b))
  ELSE IF session.name \notin Keys(ss)
    THEN Outcome(TRUE, FALSE, ss, Disk(file, b))
  ELSE LET old == ss[Index(ss, session.name)].val
           kept == [ session EXCEPT
                       !.last_connection = old.last_connection,
                       !.connection_count = old.connection_count ]
           ss1 == DictSet(ss, session.name, kept)
       IN Outcome(FALSE, TRUE, ss1, save_sessions(ss1, file, b, cfg, t))

update_session(ss, file, b, cfg, t, session) ==
  IF strip(session.name) = <<>>
    THEN Outcome(TRUE, FALSE, ss, Disk(file, b))
  ELSE IF session.name \notin Keys(ss)
    THEN Outcome(TRUE, FALSE, ss, Disk(file, b))
  ELSE LET ss1 == DictSet(ss, session.name, session)
       IN Outcome(FALSE, TRUE, ss1, save_sessions(ss1, file, b, cfg, t))

(* delete_session that pops the name and saves whether it was stored or not *)
delete_session_silent(ss, file, b, cfg, t, session_name) ==
  LET ss1 == DictDel(ss, session_name)
  IN Outcome(FALSE, TRUE, ss1, save_sessions(ss1, file, b, cfg, t))

delete_session(ss, file, b, cfg, t, session_name) ==
  IF session_name \notin Keys(ss)
    THEN Outcome(TRUE, FALSE, ss, Disk(file, b))
  ELSE LET ss1 == DictDel(ss, session_name)
       IN Outcome(FALSE, TRUE, ss1, save_sessions(ss1, file, b, cfg, t))

get_session(ss, session_name) ==
  IF session_name \in Keys(ss) THEN ss[Index(ss, session_name)].val
  ELSE NoneSession

(* update_connection_stats without line 233: last_connection is not set *)
update_connection_stats_no_time(ss, file, b, cfg, t, session_name) ==
  IF session_name \in Keys(ss)
    THEN LET ss1 == [ ss EXCEPT ![Index(ss, session_name)].val
                                   .connection_count = @ + 1 ]
         IN Outcome(FALSE, TRUE, ss1, save_sessions(ss1, file, b, cfg, t))
    ELSE Outcome(FALSE, FALSE, ss, Disk(file, b))

(* update_connection_stats without line 235: the new statistics stay in
   memory *)
update_connection_stats_no_save(ss, file, b, cfg, t, session_name) ==
  IF session_name \in Keys(ss)
    THEN LET session == ss[Index(ss, session_name)].val
             session1 == [ session EXCEPT
                             !.last_connection = isoformat(t),
                             !.connection_count = @ + 1 ]
             ss1 == [ ss EXCEPT ![Index(ss, session_name)].val = session1 ]
         IN Outcome(FALSE, TRUE, ss1, Disk(file, b))
    ELSE Outcome(FALSE, FALSE, ss, Disk(file, b))

update_connection_stats(ss, file, b, cfg, t, session_name) ==
  IF session_name \in Keys(ss)
    THEN LET session == ss[Index(ss, session_name)].val
             session1 == [ session EXCEPT
                             !.last_connection = isoformat(t),
                             !.connection_count = @ + 1 ]
             ss1 == [ ss EXCEPT ![Index(ss, session_name)].val = session1 ]
         IN Outcome(FALSE, TRUE, ss1, save_sessions(ss1, file, b, cfg, t))
    ELSE Outcome(FALSE, FALSE, ss, Disk(file, b))

----------------------------------------------------------------------------
(* filter_sessions.  An argument is None (the default) or a string; name,
   host, description and the search term are texts given letter by letter *)

NotSupplied == [ supplied |-> FALSE ]

Supplied(text) == [ supplied |-> TRUE, text |-> text ]

(* str.lower() on the letters the inputs use *)
ToLower == ("A" :> "a") @@ ("B" :> "b") @@ ("H" :> "h")

lower(s) ==
  [ i \in 1 .. Len(s) |-> IF s[i] \in DOMAIN ToLower THEN ToLower[s[i]]
                          ELSE s[i] ]

(* needle in hay *)
contains(needle, hay) ==
  \E i \in 0 .. Len(hay) - Len(needle) :
    SubSeq(hay, i + 1, i + Len(needle)) = needle

(* filter_sessions comparing the search term as it was typed *)
filter_sessions_case_sensitive(ss, group, tag, search_term) ==
  LET all == [ i \in 1 .. Len(ss) |-> ss[i].val ]
      in_group(s) == s.group = group.text
      tagged(s) == tag.text \in Range(s.tags)
      by_group == IF group.supplied /\ group.text # ""
                    THEN SelectSeq(all, in_group) ELSE all
      by_tag == IF tag.supplied /\ tag.text # ""
                  THEN SelectSeq(by_group, tagged) ELSE by_group
  IN IF search_term.supplied /\ search_term.text # <<>>
        /\ strip(search_term.text) # <<>>
       THEN LET term == strip(search_term.text)
                found(s) == \/ contains(term, s.name)
                            \/ contains(term, s.host)
                            \/ contains(term, s.description)
            IN SelectSeq(by_tag, found)
     ELSE by_tag

filter_sessions(ss, group, tag, search_term) ==
  LET all == [ i \in 1 .. Len(ss) |-> ss[i].val ]
      in_group(s) == s.group = group.text
      tagged(s) == tag.text \in Range(s.tags)
      by_group == IF group.supplied /\ group.text # ""
                    THEN SelectSeq(all, in_group) ELSE all
      by_tag == IF tag.supplied /\ tag.text # ""
                  THEN SelectSeq(by_group, tagged) ELSE by_group
  IN IF search_term.supplied /\ search_term.text # <<>>
        /\ strip(search_term.text) # <<>>
       THEN LET term == strip(lower(search_term.text))
                found(s) == \/ contains(term, lower(s.name))
                            \/ contains(term, lower(s.host))
                            \/ contains(term, lower(s.description))
            IN SelectSeq(by_tag, found)
     ELSE by_tag

(* MainWindow._on_edit_session from the dialog's data on: lines 421-449.
   raised tells that the handler ended in its except clause. *)
_on_edit_session(ss, file, b, cfg, t, session_name, session_data) ==
  LET session == get_session(ss, session_name)
      updated_session ==
        [ Session(session_data.name, session_data.host,
                  session_data.username, session_data.password,
                  session_data.group, session_data.tags,
                  session_data.description, session_data.key_file,
                  session_data.params)
            EXCEPT !.last_connection = session.last_connection,
                   !.connection_count = session.connection_count ]
      r1 == delete_session(ss, file, b, cfg, t, session_name)
      r2 == add_session(r1.sessions, r1.session_file, r1.backups, cfg, t,
                        updated_session)
  IN IF r1.raised THEN r1
     ELSE IF r2.raised
       THEN Outcome(TRUE, TRUE, r2.sessions,
                    Disk(r2.session_file, r2.backups))
     ELSE Outcome(FALSE, TRUE, r2.sessions,
                  save_sessions(r2.sessions, r2.session_file, r2.backups,
                                cfg, t))

----------------------------------------------------------------------------
(* Strings of the IPAM layer.  A string that spells an address is given by
   its family, the numbers of its groups, its spelling (an IPv6 address may
   be written in upper case, an IPv4 address with leading zeros) and the
   prefix length written after "/" (NoPrefix when there is no "/").  Any
   other string is given by its text alone. *)

NoPrefix == 0 - 1

Str(text, groups, form, prefix) ==
  [ text |-> text, groups |-> groups, form |-> form, prefix |-> prefix ]

Word(text) == Str(text, <<>>, "plain", NoPrefix)

EmptyStr == Word("")

NoneValue == [none |-> TRUE]

(* bool(v) of a value that is None or a string *)
truthy(v) == v # NoneValue /\ v # EmptyStr

(* time.time() *)
time_time(t) == <<t>>

----------------------------------------------------------------------------
(* The ipaddress module *)

max_prefixlen(version) == IF version = 4 THEN 32 ELSE 128

group_bits(version) == IF version = 4 THEN 8 ELSE 16

(* the text is a well-formed address: leading zeros are rejected for IPv4,
   upper-case digits are accepted for IPv6 *)
address_ok(s) ==
  \/ /\ s.text = "v4" /\ s.form = "plain" /\ Len(s.groups) = 4
     /\ \A i \in 1 .. 4 : s.groups[i] \in 0 .. 255
  \/ /\ s.text = "v6" /\ s.form \in {"plain", "upper"} /\ Len(s.groups) = 8
     /\ \A i \in 1 .. 8 : s.groups[i] \in 0 .. 65535

version_of(s) == IF s.text = "v4" THEN 4 ELSE 6

(* ipaddress.ip_address(s) raises ValueError *)
ip_address_raises(s) == ~ (address_ok(s) /\ s.prefix = NoPrefix)

ip_address(s) == [ version |-> version_of(s), groups |-> s.groups ]

(* str(address): the canonical spelling *)
str_address(a) ==
  Str(IF a.version = 4 THEN "v4" ELSE "v6", a.groups, "plain", NoPrefix)

(* the number of host bits that fall into group i of an address *)
host_bits(version, prefixlen, n, i) ==
  LET w == group_bits(version)
      below == (n - i) * w
      h == max_prefixlen(version) - prefixlen
  IN IF h <= below THEN 0 ELSE IF h - below >= w THEN w ELSE h - below

mask_groups(version, groups, prefixlen) ==
  [ i \in 1 .. Len(groups) |->
      groups[i]
        - (groups[i] % (2 ^ host_bits(version, prefixlen, Len(groups), i))) ]

(* ipaddress.ip_network(s, strict=False) raises ValueError *)
ip_network_raises(s) ==
  ~ (/\ address_ok(s)
     /\ s.prefix \in {NoPrefix} \cup (0 .. max_prefixlen(version_of(s))))

(* ipaddress.ip_network(s, strict=False): host bits are masked off *)
ip_network(s) ==
  LET version == version_of(s)
      prefixlen == IF s.prefix = NoPrefix THEN max_prefixlen(version)
                   ELSE s.prefix
  IN [ version |-> version,
       groups |-> mask_groups(version, s.groups, prefixlen),
       prefixlen |-> prefixlen ]

(* address in network *)
network_contains(net, a) ==
  /\ a.version = net.version
  /\ mask_groups(a.version, a.groups, net.prefixlen) = net.groups

num_addresses(net) == 2 ^ (max_prefixlen(net.version) - net.prefixlen)

(* the addresses of the block at offsets from .. to; the blocks of the
   model keep their host bits inside the last group *)
network_addresses(net, from, to) ==
  [ j \in 1 .. (to - from + 1) |->
      [ version |-> net.version,
        groups |-> [ net.groups EXCEPT ![Len(net.groups)] = @ + from + j - 1 ] ] ]

(* IPv4Network.hosts(): neither the network nor the broadcast address,
   except that a /31 yields both its addresses and a /32 its only one *)
hosts(net) ==
  IF net.prefixlen = max_prefixlen(net.version) - 1
    THEN network_addresses(net, 0, 1)
  ELSE IF net.prefixlen = max_prefixlen(net.version)
    THEN network_addresses(net, 0, 0)
  ELSE network_addresses(net, 1, num_addresses(net) - 2)

----------------------------------------------------------------------------
(* class IPAMEntry *)

IPAMEntry(ip, subnet, hostname, description, status, session_name) ==
  [ ip |-> ip, subnet |-> subnet, hostname |-> hostname,
    description |-> description, status |-> status,
    session_name |-> session_name, last_seen |-> None ]

IPAMEntry_to_dict(e) ==
  [ ip |-> e.ip, subnet |-> e.subnet, hostname |-> e.hostname,
    description |-> e.description, status |-> e.status,
    session_name |-> e.session_name, last_seen |-> e.last_seen ]

(* class Subnet *)

(* Subnet.__init__ raises ValueError: the CIDR is no network *)
Subnet_raises(cidr) == ip_network_raises(cidr)

Subnet(cidr, name, description) ==
  [ cidr |-> cidr, name |-> name, description |-> description,
    network |-> ip_network(cidr) ]

Subnet_to_dict(s) ==
  [ cidr |-> s.cidr, name |-> s.name, description |-> s.description ]

get_ip_range(subnet) ==
  LET net == subnet.network
      ips == IF net.version = 4 THEN hosts(net)
             ELSE network_addresses(net, 0, num_addresses(net) - 1)
  IN [ i \in 1 .. Len(ips) |-> str_address(ips[i]) ]

(* get_usage_stats; utilization, a float derived from used and total, is
   left out *)
get_usage_stats(subnet, es) ==
  LET n == num_addresses(subnet.network)
      total == IF subnet.network.version = 4 /\ n > 2 THEN n - 2 ELSE n
      ip_range == get_ip_range(subnet)
      used == Cardinality({ i \in 1 .. Len(ip_range) : ip_range[i] \in Keys(es) })
  IN [ total |-> total, used |-> used, available |-> total - used ]

----------------------------------------------------------------------------
(* class IPAMManager.  Each operation returns its return value, the two
   dicts and the two files it leaves. *)

NoIpamFiles == [ entries_file |-> NoFile, subnets_file |-> NoFile ]

save_data(es, sn) ==
  [ entries_file |->
      [ exists |-> TRUE,
        data |-> [ i \in 1 .. Len(es) |-> IPAMEntry_to_dict(es[i].val) ] ],
    subnets_file |->
      [ exists |-> TRUE,
        data |-> [ i \in 1 .. Len(sn) |-> Subnet_to_dict(sn[i].val) ] ] ]

IpamOutcome(ret, es, sn, disk) ==
  [ ret |-> ret, entries |-> es, subnets |-> sn, ipam_disk |-> disk ]

(* add_subnet without the check of line 173: a registered CIDR is replaced *)
add_subnet_overwrite(es, sn, disk, subnet) ==
  LET sn1 == DictSet(sn, subnet.cidr, subnet)
  IN IpamOutcome(TRUE, es, sn1, save_data(es, sn1))

add_subnet(es, sn, disk, subnet) ==
  IF subnet.cidr \in Keys(sn) THEN IpamOutcome(FALSE, es, sn, disk)
  ELSE LET sn1 == DictSet(sn, subnet.cidr, subnet)
       IN IpamOutcome(TRUE, es, sn1, save_data(es, sn1))

(* remove_subnet without lines 186-189: the entries of the subnet stay *)
remove_subnet_no_cascade(es, sn, disk, cidr) ==
  IF cidr \notin Keys(sn) THEN IpamOutcome(FALSE, es, sn, disk)
  ELSE LET sn1 == DictDel(sn, cidr)
       IN IpamOutcome(TRUE, es, sn1, save_data(es, sn1))

remove_subnet(es, sn, disk, cidr) ==
  IF cidr \notin Keys(sn) THEN IpamOutcome(FALSE, es, sn, disk)
  ELSE LET entries_to_remove ==
             { es[i].key : i \in { j \in 1 .. Len(es) : es[j].val.subnet = cidr } }
           keep(e) == e.key \notin entries_to_remove
           es1 == SelectSeq(es, keep)
           sn1 == DictDel(sn, cidr)
       IN IpamOutcome(TRUE, es1, sn1, save_data(es1, sn1))

(* add_ip_entry refusing an address that is already stored *)
add_ip_entry_reject(es, sn, disk, entry) ==
  IF entry.ip \in Keys(es) THEN IpamOutcome(FALSE, es, sn, disk)
  ELSE LET es1 == DictSet(es, entry.ip, entry)
       IN IpamOutcome(TRUE, es1, sn, save_data(es1, sn))

add_ip_entry(es, sn, disk, entry) ==
  LET es1 == DictSet(es, entry.ip, entry)
  IN IpamOutcome(TRUE, es1, sn, save_data(es1, sn))

remove_ip_entry(es, sn, disk, ip) ==
  IF ip \notin Keys(es) THEN IpamOutcome(FALSE, es, sn, disk)
  ELSE LET es1 == DictDel(es, ip)
       IN IpamOutcome(TRUE, es1, sn, save_data(es1, sn))

get_entry(es, ip) ==
  IF ip \in Keys(es) THEN es[Index(es, ip)].val ELSE NoneValue

get_subnet(sn, cidr) ==
  IF cidr \in Keys(sn) THEN sn[Index(sn, cidr)].val ELSE NoneValue

(* the loop of lines 223-225 from subnet i on *)
RECURSIVE first_containing(_, _, _)
first_containing(sn, i, ip_obj) ==
  IF i > Len(sn) THEN NoneValue
  ELSE IF network_contains(sn[i].val.network, ip_obj) THEN sn[i].val
  ELSE first_containing(sn, i + 1, ip_obj)

(* find_subnet_for_ip returning the last match *)
find_subnet_for_ip_last(sn, ip) ==
  IF ip_address_raises(ip) THEN NoneValue
  ELSE LET m == { i \in 1 .. Len(sn) :
                    network_contains(sn[i].val.network, ip_address(ip)) }
       IN IF m = {} THEN NoneValue
          ELSE sn[CHOOSE i \in m : \A j \in m : j <= i].val

(* ValueError from ip_address is caught at line 226 *)
find_subnet_for_ip(sn, ip) ==
  IF ip_address_raises(ip) THEN NoneValue
  ELSE first_containing(sn, 1, ip_address(ip))

----------------------------------------------------------------------------
(* CSV files: a file is its lines, a line is its cells, an empty line has
   no cell. *)

(* csv.DictReader: the first line holds the field names, empty lines are
   skipped, a cell missing at the end of a line reads as None; cells beyond
   the field names are collected under a key that import_from_csv never
   reads and are left out *)
DictReader(lines) ==
  IF lines = <<>> THEN <<>>
  ELSE LET fieldnames == lines[1]
           nonblank(l) == l # <<>>
           body == SelectSeq(Tail(lines), nonblank)
           column(k) == CHOOSE i \in 1 .. Len(fieldnames) :
                          /\ fieldnames[i] = k
                          /\ \A j \in 1 .. Len(fieldnames) :
                               fieldnames[j] = k => j <= i
           row(l) == [ k \in Range(fieldnames) |->
                         IF column(k) <= Len(l) THEN l[column(k)]
                         ELSE NoneValue ]
       IN [ i \in 1 .. Len(body) |-> row(body[i]) ]

ImportCounters(es, sn, disk, added_ips, added_subnets, errors) ==
  [ entries |-> es, subnets |-> sn, ipam_disk |-> disk,
    added_ips |-> added_ips, added_subnets |-> added_subnets,
    errors |-> errors ]

(* the loop of lines 303-328 from row i on *)
RECURSIVE import_rows(_, _, _)
import_rows(rows, i, acc) ==
  IF i > Len(rows) THEN acc
  ELSE
    LET row == rows[i]
    IN IF Word("cidr") \in DOMAIN row /\ truthy(row[Word("cidr")])
         THEN IF Subnet_raises(row[Word("cidr")])
                THEN import_rows(rows, i + 1, [ acc EXCEPT !.errors = @ + 1 ])
              ELSE
                LET subnet == Subnet(row[Word("cidr")],
                                     dict_get(row, Word("name"), EmptyStr),
                                     dict_get(row, Word("description"), EmptyStr))
                    r == add_subnet(acc.entries, acc.subnets, acc.ipam_disk,
                                    subnet)
                IN import_rows(rows, i + 1,
                     [ acc EXCEPT !.entries = r.entries,
                                  !.subnets = r.subnets,
                                  !.ipam_disk = r.ipam_disk,
                                  !.added_subnets = IF r.ret THEN @ + 1 ELSE @ ])
       ELSE IF Word("ip") \in DOMAIN row /\ truthy(row[Word("ip")])
         THEN
           LET entry == IPAMEntry(row[Word("ip")],
                                  dict_get(row, Word("subnet"), EmptyStr),
                                  dict_get(row, Word("hostname"), EmptyStr),
                                  dict_get(row, Word("description"), EmptyStr),
                                  dict_get(row, Word("status"), Word("Unknown")),
                                  dict_get(row, Word("session_name"), EmptyStr))
               r == add_ip_entry(acc.entries, acc.subnets, acc.ipam_disk, entry)
           IN import_rows(rows, i + 1,
                [ acc EXCEPT !.entries = r.entries,
                             !.subnets = r.subnets,
                             !.ipam_disk = r.ipam_disk,
                             !.added_ips = IF r.ret THEN @ + 1 ELSE @ ])
       ELSE import_rows(rows, i + 1, acc)

(* a file that cannot be opened ends the import at line 329 *)
import_from_csv(es, sn, disk, file) ==
  IF file = NoFile
    THEN IpamOutcome([success |-> FALSE], es, sn, disk)
  ELSE LET acc == import_rows(DictReader(file.lines), 1,
                              ImportCounters(es, sn, disk, 0, 0, 0))
       IN IpamOutcome([ success |-> TRUE, added_ips |-> acc.added_ips,
                        added_subnets |-> acc.added_subnets,
                        errors |-> acc.errors ],
                      acc.entries, acc.subnets, acc.ipam_disk)

SubnetFieldnames == << Word("cidr"), Word("name"), Word("description") >>

EntryFieldnames ==
  << Word("ip"), Word("subnet"), Word("hostname"), Word("description"),
     Word("status"), Word("session_name"), Word("last_seen") >>

(* what csv.writer writes for last_seen: nothing for None, else the number *)
csv_last_seen(v) ==
  IF v = None THEN EmptyStr ELSE Str("float", v, "plain", NoPrefix)

(* export_to_csv: its return value and the file it writes *)
export_to_csv(es, sn, include_ips, include_subnets) ==
  LET subnet_rows == [ i \in 1 .. Len(sn) |->
                         << sn[i].val.cidr, sn[i].val.name,
                            sn[i].val.description >> ]
      entry_rows == [ i \in 1 .. Len(es) |->
                        << es[i].val.ip, es[i].val.subnet, es[i].val.hostname,
                           es[i].val.description, es[i].val.status,
                           es[i].val.session_name,
                           csv_last_seen(es[i].val.last_seen) >> ]
      subnets_part == IF include_subnets /\ sn # <<>>
                        THEN <<SubnetFieldnames>> \o subnet_rows
                             \o (IF include_ips THEN << <<>> >> ELSE <<>>)
                        ELSE <<>>
      entries_part == IF include_ips /\ es # <<>>
                        THEN <<EntryFieldnames>> \o entry_rows
                        ELSE <<>>
  IN [ ok |-> TRUE,
       file |-> [ exists |-> TRUE, lines |-> subnets_part \o entries_part ] ]

----------------------------------------------------------------------------
(* scan_subnet.  A probe worker whose address has no entry and cannot
   answer leaves no trace and is counted; every other worker is kept by its
   address.  saves counts the calls of save_data the scan has made. *)

ScanMaxThreads == 50

ScanIdle ==
  [ pc |-> "idle", cidr |-> EmptyStr, ip_range |-> <<>>, started |-> 0,
    silent |-> 0, probing |-> {}, active_ips |-> <<>>, saves |-> 0 ]

(* sum(t.is_alive() for t in threads) *)
alive_threads(sc) == sc.silent + Cardinality(sc.probing)

(* the test of line 284 with > in place of >= *)
thread_limit_reached_late(sc) == alive_threads(sc) > ScanMaxThreads

(* the test of line 284 counting every thread started, alive or not *)
thread_limit_reached_all_threads(sc) == sc.started >= ScanMaxThreads

(* the test of line 284 *)
thread_limit_reached(sc) == alive_threads(sc) >= ScanMaxThreads

(* the loop of lines 288-289 left out: nothing is waited for *)
threads_joined_no_wait(sc) == TRUE

(* the loop of lines 288-289 has come to its end: thread.join() returns
   only when the thread is no longer alive *)
threads_joined(sc) == alive_threads(sc) = 0

(* What the two calls a worker makes to the outside do.  subprocess.
   check_output: the host answers ("ok"), ping exits with an error status
   ("down", CalledProcessError), or ping cannot be run ("spawn_failed",
   an OSError).  socket.gethostbyaddr: a name, socket.herror, or another
   exception of the socket module (gaierror, timeout). *)
PingOutcomes == { "ok", "down", "spawn_failed" }

Found(name) == [ raises |-> "nothing", name |-> name ]

LookupFailed(exc) == [ raises |-> exc, name |-> EmptyStr ]

LookupOutcomes ==
  { Found(Word("host1")), LookupFailed("herror"), LookupFailed("gaierror") }

(* what one worker leaves: the entries dict, whether its address was
   appended to the results, and whether it died of an exception *)
Probed(es, appended, raised) ==
  [ entries |-> es, appended |-> appended, raised |-> raised ]

(* ping_host with a handler at line 268 that marks the entry of a host
   that does not answer *)
ping_host_marks_inactive(es, ip, cidr, ping, lookup, t) ==
  IF ping = "down"
    THEN IF ip \in Keys(es)
           THEN Probed([ es EXCEPT ![Index(es, ip)].val.status =
                                      Word("Inactive") ],
                       FALSE, FALSE)
           ELSE Probed(es, FALSE, FALSE)
  ELSE IF ping = "spawn_failed" THEN Probed(es, FALSE, TRUE)
  ELSE IF ip \in Keys(es)
    THEN Probed([ es EXCEPT ![Index(es, ip)].val.status = Word("Active"),
                            ![Index(es, ip)].val.last_seen = time_time(t) ],
                TRUE, FALSE)
  ELSE IF lookup.raises \notin { "nothing", "herror" }
    THEN Probed(es, TRUE, TRUE)
  ELSE LET entry == [ IPAMEntry(ip, cidr, EmptyStr, EmptyStr,
                                Word("Active"), EmptyStr)
                        EXCEPT !.last_seen = time_time(t),
                               !.hostname = lookup.name ]
       IN Probed(DictSet(es, ip, entry), TRUE, FALSE)

(* ping_host: lines 238-270.  CalledProcessError is handled at line 268,
   socket.herror at line 262; any other exception ends the thread where
   it is raised. *)
ping_host(es, ip, cidr, ping, lookup, t) ==
  IF ping = "down" THEN Probed(es, FALSE, FALSE)
  ELSE IF ping = "spawn_failed" THEN Probed(es, FALSE, TRUE)
  ELSE IF ip \in Keys(es)
    THEN Probed([ es EXCEPT ![Index(es, ip)].val.status = Word("Active"),
                            ![Index(es, ip)].val.last_seen = time_time(t) ],
                TRUE, FALSE)
  ELSE IF lookup.raises \notin { "nothing", "herror" }
    THEN Probed(es, TRUE, TRUE)
  ELSE LET entry == [ IPAMEntry(ip, cidr, EmptyStr, EmptyStr,
                                Word("Active"), EmptyStr)
                        EXCEPT !.last_seen = time_time(t),
                               !.hostname = lookup.name ]
       IN Probed(DictSet(es, ip, entry), TRUE, FALSE)

----------------------------------------------------------------------------
(* Inputs *)

NewSession(n, p) ==
  Session(n, p.host, p.username, p.password, p.group, p.tags,
          p.description, p.key_file, p.params)

(* what the caller of the last operation saw: the operation, its argument,
   how it ended, and for a successful call the session passed in and the
   clock reading the operation took *)
Call(op, name, status, session, time) ==
  [ op |-> op, name |-> name, status |-> status,
    session |-> IF status = "ok" THEN session ELSE NoneSession,
    time |-> IF status = "ok" THEN time ELSE 0 ]

NoStreak == [ name |-> <<>>, base |-> 0, n |-> 0 ]

Status(r) == IF r.raised THEN "error" ELSE IF r.saved THEN "ok" ELSE "noop"

(* the effect of a call that also drops the IPAM entries linked to a
   session when the session file is written *)
Apply_cascading(r) ==
  /\ r.saved => numSaves < MaxSaves
  /\ sessions' = r.sessions
  /\ session_file' = r.session_file
  /\ backups' = r.backups
  /\ numSaves' = IF r.saved THEN numSaves + 1 ELSE numSaves
  /\ entries' = IF r.saved
                  THEN LET unlinked(e) == e.val.session_name = EmptyStr
                       IN SelectSeq(entries, unlinked)
                  ELSE entries
  /\ UNCHANGED <<config, config_file, now, subnets, ipam_disk, scan>>

(* the effect of one call of a SessionManager operation with outcome r *)
Apply(r) ==
  /\ r.saved => numSaves < MaxSaves
  /\ sessions' = r.sessions
  /\ session_file' = r.session_file
  /\ backups' = r.backups
  /\ numSaves' = IF r.saved THEN numSaves + 1 ELSE numSaves
  /\ UNCHANGED <<config, config_file, now, ipamVars>>

----------------------------------------------------------------------------
(* Neither manager has been used: no data files, nothing stored *)

IpamNotStarted ==
  /\ entries = <<>>
  /\ subnets = <<>>
  /\ ipam_disk = NoIpamFiles
  /\ scan = ScanIdle

SessionsNotStarted ==
  /\ sessions = <<>>
  /\ session_file = NoFile
  /\ backups = <<>>
  /\ config = DefaultConfig
  /\ config_file = NoFile
  /\ now = 0
  /\ streak = NoStreak
  /\ numSaves = 0

(* Initial state: a SessionManager has just been constructed.  Either this
   is the first start (no session file), or an earlier run added one session
   and left the file save_sessions wrote for it; there are no backups yet
   and the configuration holds its defaults. *)
FirstSession ==
  NewSession(<<"a">>, CHOOSE p \in Profiles : p.host = "h1")

InitialFiles ==
  { NoFile, [exists |-> TRUE, data |-> <<to_dict(FirstSession)>>] }

Init ==
  /\ session_file \in InitialFiles
  /\ sessions = _load_sessions(session_file)
  /\ backups = <<>>
  /\ config = DefaultConfig
  /\ config_file = NoFile
  /\ now = 0
  /\ last = Call("init", <<>>, "ok", NoneSession, 0)
  /\ streak = NoStreak
  /\ numSaves = 0
  /\ IpamNotStarted

(* Actions *)

Add ==
  \E n \in Names, p \in Profiles :
    LET session == NewSession(n, p)
        r == add_session(sessions, session_file, backups, config, now,
                         session)
    IN /\ Apply(r)
       /\ last' = Call("add", n, Status(r), session, 0)
       /\ streak' = NoStreak

Update ==
  \E n \in LookupNames, p \in Profiles :
    LET session == NewSession(n, p)
        r == update_session(sessions, session_file, backups, config, now,
                            session)
    IN /\ Apply(r)
       /\ last' = Call("update", n, Status(r), session, 0)
       /\ streak' = NoStreak

Delete ==
  \E n \in LookupNames :
    LET r == delete_session(sessions, session_file, backups, config, now, n)
    IN /\ Apply(r)
       /\ last' = Call("delete", n, Status(r), NoneSession, 0)
       /\ streak' = NoStreak

RecordConnection ==
  \E n \in LookupNames :
    LET r == update_connection_stats(sessions, session_file, backups,
                                     config, now, n)
        old == get_session(sessions, n)
    IN /\ Apply(r)
       /\ last' = Call("record", n, Status(r), NoneSession, now)
       /\ streak' = IF ~ r.saved THEN NoStreak
                    ELSE IF streak.n > 0 /\ streak.name = n
                      THEN [ streak EXCEPT !.n = @ + 1 ]
                      ELSE [ name |-> n, base |-> old.connection_count,
                             n |-> 1 ]

(* a direct call of save_sessions (main_window calls it after edits) *)
Save ==
  LET d == save_sessions(sessions, session_file, backups, config, now)
      r == Outcome(FALSE, TRUE, sessions, d)
  IN /\ Apply(r)
     /\ last' = Call("save", <<>>, "ok", NoneSession, 0)
     /\ streak' = NoStreak

(* the application is restarted: a fresh SessionManager loads the file *)
Reload ==
  /\ sessions' = _load_sessions(session_file)
  /\ last' = Call("reload", <<>>, "ok", NoneSession, 0)
  /\ streak' = NoStreak
  /\ UNCHANGED <<session_file, backups, config, config_file, now,
                 numSaves, ipamVars>>

(* max_backups is configured (config.set("general", "max_backups", k), or
   a value merged from the configuration file) before the repository saves *)
ConfigSet ==
  \E k \in 0 .. MaxBackupsCfg :
    /\ numSaves = 0
    /\ config' = config_set(config, "general", "max_backups", JInt(k))
    /\ config' # config
    /\ last' = Call("config", <<>>, "ok", NoneSession, 0)
    /\ streak' = NoStreak
    /\ UNCHANGED <<sessions, session_file, backups, config_file, now,
                   numSaves, ipamVars>>

Tick ==
  /\ now < MaxClock
  /\ now' = now + 1
  /\ UNCHANGED <<sessions, session_file, backups, config, config_file,
                 last, streak, numSaves, ipamVars>>

Next ==
  \/ Add
  \/ Update
  \/ Delete
  \/ RecordConnection
  \/ Save
  \/ Reload
  \/ ConfigSet
  \/ Tick

Spec == Init /\ [][Next]_vars

----------------------------------------------------------------------------
(* The repository on a file system whose backups directory fails *)

FaultNames == { <<"a">>, <<"b">> }

PlainProfile == CHOOSE p \in Profiles : p.host = "h1"

(* the outcome of an operation whose call of save_sessions, if it makes
   one, meets the fault; r is its outcome on a working file system *)
UnderFault(r, file, b, cfg, t, fault) ==
  IF ~ r.saved THEN r
  ELSE LET d == save_sessions_faulty(r.sessions, file, b, cfg, t, fault)
       IN Outcome(d.raised, TRUE, r.sessions, d)

(* what the caller saw, the fault the call met, and whether the operation
   went as far as calling save_sessions *)
FaultCall(op, name, r, called_save, fault) ==
  [ op |-> op, name |-> name, status |-> Status(r),
    called_save |-> called_save, fault |-> fault ]

InitFault ==
  /\ Init
  /\ session_file # NoFile

AddUnderFault ==
  \E n \in FaultNames, f \in Faults :
    LET r0 == add_session(sessions, session_file, backups, config, now,
                          NewSession(n, PlainProfile))
        r == UnderFault(r0, session_file, backups, config, now, f)
    IN /\ Apply(r)
       /\ last' = FaultCall("add", n, r, r0.saved, f)
       /\ streak' = NoStreak

UpdateUnderFault ==
  \E n \in FaultNames, f \in Faults :
    LET r0 == update_session(sessions, session_file, backups, config, now,
                             NewSession(n, PlainProfile))
        r == UnderFault(r0, session_file, backups, config, now, f)
    IN /\ Apply(r)
       /\ last' = FaultCall("update", n, r, r0.saved, f)
       /\ streak' = NoStreak

DeleteUnderFault ==
  \E n \in FaultNames, f \in Faults :
    LET r0 == delete_session(sessions, session_file, backups, config, now, n)
        r == UnderFault(r0, session_file, backups, config, now, f)
    IN /\ Apply(r)
       /\ last' = FaultCall("delete", n, r, r0.saved, f)
       /\ streak' = NoStreak

RecordConnectionUnderFault ==
  \E n \in FaultNames, f \in Faults :
    LET r0 == update_connection_stats(sessions, session_file, backups,
                                      config, now, n)
        r == UnderFault(r0, session_file, backups, config, now, f)
    IN /\ Apply(r)
       /\ last' = FaultCall("record", n, r, r0.saved, f)
       /\ streak' = NoStreak

NextFault ==
  \/ AddUnderFault
  \/ UpdateUnderFault
  \/ DeleteUnderFault
  \/ RecordConnectionUnderFault
  \/ ConfigSet
  \/ Tick

SpecFault == InitFault /\ [][NextFault]_vars

----------------------------------------------------------------------------
(* The IPAM manager: inputs *)

NetA == Str("v4", <<192, 168, 1, 0>>, "plain", 24)
NetB == Str("v4", <<192, 168, 1, 128>>, "plain", 25)
Net6 == Str("v6", <<8193, 3512, 0, 0, 0, 0, 0, 0>>, "plain", 126)

(* 192.168.1.5, 192.168.1.130, 2001:DB8::1 and a text that is no address *)
Ip5 == Str("v4", <<192, 168, 1, 5>>, "plain", NoPrefix)
Ip130 == Str("v4", <<192, 168, 1, 130>>, "plain", NoPrefix)
Ip6Upper == Str("v6", <<8193, 3512, 0, 0, 0, 0, 0, 1>>, "upper", NoPrefix)
Junk == Word("junk")

(* 192.168.1.0/33 *)
BadCidr == Str("v4", <<192, 168, 1, 0>>, "plain", 33)

CidrInputs == { NetA, NetB, Net6 }

IpInputs == { Ip5, Ip130, Ip6Upper, Junk }

SubnetInputs ==
  { Subnet(NetA, Word("lan"), EmptyStr),
    Subnet(NetA, Word("dmz"), Word("d")),
    Subnet(NetB, Word("dmz"), EmptyStr),
    Subnet(Net6, Word("v6"), EmptyStr) }

EntryInputs ==
  { IPAMEntry(Ip5, EmptyStr, EmptyStr, EmptyStr, Word("Unknown"), EmptyStr),
    IPAMEntry(Ip5, NetA, Word("h"), Word("d"), Word("Reserved"), Word("a")),
    IPAMEntry(Ip130, NetB, EmptyStr, EmptyStr, Word("Unknown"), EmptyStr),
    IPAMEntry(Ip6Upper, EmptyStr, EmptyStr, EmptyStr, Word("Unknown"), EmptyStr) }

(* what the caller of the last IPAMManager operation passed and got back,
   and the number of entries the manager held when it was called *)
IpamCall(op, arg, ret, n) == [ op |-> op, arg |-> arg, ret |-> ret, n |-> n ]

(* a return value that is a boolean or a list *)
Returned(v) == [ value |-> v ]

(* the effect of one call of an IPAMManager operation with outcome r *)
ApplyIpam(r) ==
  /\ entries' = r.entries
  /\ subnets' = r.subnets
  /\ ipam_disk' = r.ipam_disk
  /\ Len(r.entries) <= MaxEntries
  /\ Len(r.subnets) <= MaxSubnets
  /\ UNCHANGED <<scan, sessionVars>>

(* an IPAMManager has just been constructed on an empty data directory *)
InitIpam ==
  /\ SessionsNotStarted
  /\ IpamNotStarted
  /\ last = IpamCall("init", EmptyStr, Returned(TRUE), 0)

AddSubnet ==
  \E subnet \in SubnetInputs :
    LET r == add_subnet(entries, subnets, ipam_disk, subnet)
    IN /\ ApplyIpam(r)
       /\ last' = IpamCall("add_subnet", subnet, Returned(r.ret),
                        Len(entries))

RemoveSubnet ==
  \E cidr \in CidrInputs :
    LET r == remove_subnet(entries, subnets, ipam_disk, cidr)
    IN /\ ApplyIpam(r)
       /\ last' = IpamCall("remove_subnet", cidr, Returned(r.ret),
                        Len(entries))

AddEntry ==
  \E entry \in EntryInputs :
    LET r == add_ip_entry(entries, subnets, ipam_disk, entry)
    IN /\ ApplyIpam(r)
       /\ last' = IpamCall("add_ip_entry", entry, Returned(r.ret),
                        Len(entries))

RemoveEntry ==
  \E ip \in IpInputs :
    LET r == remove_ip_entry(entries, subnets, ipam_disk, ip)
    IN /\ ApplyIpam(r)
       /\ last' = IpamCall("remove_ip_entry", ip, Returned(r.ret),
                        Len(entries))

FindSubnetForIp ==
  \E ip \in IpInputs :
    /\ last' = IpamCall("find_subnet_for_ip", ip,
                        find_subnet_for_ip(subnets, ip), Len(entries))
    /\ UNCHANGED <<ipamVars, sessionVars>>

GetUsageStats ==
  \E i \in 1 .. Len(subnets) :
    /\ last' = IpamCall("get_usage_stats", subnets[i].key,
                        get_usage_stats(subnets[i].val, entries),
                        Len(entries))
    /\ UNCHANGED <<ipamVars, sessionVars>>

ExportToCsv ==
  \E include_ips \in BOOLEAN, include_subnets \in BOOLEAN :
    /\ last' = IpamCall("export_to_csv",
                        [ include_ips |-> include_ips,
                          include_subnets |-> include_subnets ],
                        export_to_csv(entries, subnets, include_ips,
                                      include_subnets),
                        Len(entries))
    /\ UNCHANGED <<ipamVars, sessionVars>>

NextIpam ==
  \/ AddSubnet
  \/ RemoveSubnet
  \/ AddEntry
  \/ RemoveEntry
  \/ FindSubnetForIp
  \/ GetUsageStats
  \/ ExportToCsv

SpecIpam == InitIpam /\ [][NextIpam]_vars

----------------------------------------------------------------------------
(* CSV import *)

ImportFieldnames ==
  << Word("cidr"), Word("name"), Word("ip"), Word("hostname") >>

(* a subnet row, an entry row, a row with an invalid CIDR, a row with an
   invalid address, a row with neither a CIDR nor an address *)
ImportLines ==
  { << NetA, Word("lan"), EmptyStr, EmptyStr >>,
    << EmptyStr, EmptyStr, Ip5, Word("h") >>,
    << BadCidr, Word("x"), EmptyStr, EmptyStr >>,
    << EmptyStr, EmptyStr, Junk, Word("h") >>,
    << EmptyStr, Word("x"), EmptyStr, EmptyStr >> }

RECURSIVE SeqsUpTo(_, _)
SeqsUpTo(S, n) ==
  IF n = 0 THEN { <<>> }
  ELSE LET shorter == SeqsUpTo(S, n - 1)
       IN shorter \cup { Append(q, x) : q \in shorter, x \in S }

(* a repository with one subnet and one entry of that subnet, and the files
   export_to_csv writes for it: both sections, one of them, none *)
ExportedRepository ==
  LET r1 == add_subnet(<<>>, <<>>, NoIpamFiles,
                       Subnet(NetA, Word("lan"), EmptyStr))
  IN add_ip_entry(r1.entries, r1.subnets, r1.ipam_disk,
                  IPAMEntry(Ip5, NetA, Word("h"), Word("d"),
                            Word("Reserved"), Word("a")))

ExportedFiles ==
  { export_to_csv(ExportedRepository.entries, ExportedRepository.subnets,
                  include_ips, include_subnets).file :
      include_ips \in BOOLEAN, include_subnets \in BOOLEAN }

(* the files offered to the import: one that cannot be opened, files with
   a CIDR and an address column, a file of entries only, and files that
   export_to_csv wrote *)
ImportFiles ==
  { NoFile }
    \cup ExportedFiles
    \cup { [ exists |-> TRUE, lines |-> <<ImportFieldnames>> \o rows ] :
             rows \in SeqsUpTo(ImportLines, MaxRows) }
    \cup { [ exists |-> TRUE,
             lines |-> << << Word("ip"), Word("subnet") >>,
                          << Ip130, NetB >> >> ] }

(* the manager was constructed on an empty data directory, or one subnet
   and one entry were added to it since *)
InitImport ==
  /\ SessionsNotStarted
  /\ scan = ScanIdle
  /\ \E loaded \in BOOLEAN :
       IF loaded
         THEN LET r1 == add_subnet(<<>>, <<>>, NoIpamFiles,
                                   Subnet(NetA, Word("dmz"), EmptyStr))
                  r2 == add_ip_entry(r1.entries, r1.subnets, r1.ipam_disk,
                                     IPAMEntry(Ip5, NetA, EmptyStr, EmptyStr,
                                               Word("Unknown"), EmptyStr))
              IN /\ entries = r2.entries
                 /\ subnets = r2.subnets
                 /\ ipam_disk = r2.ipam_disk
         ELSE /\ entries = <<>>
              /\ subnets = <<>>
              /\ ipam_disk = NoIpamFiles
  /\ last = IpamCall("init", EmptyStr, Returned(TRUE), 0)

(* the user imports one file after the start *)
ImportFromCsv ==
  \E file \in ImportFiles :
    LET r == import_from_csv(entries, subnets, ipam_disk, file)
    IN /\ last.op = "init"
       /\ entries' = r.entries
       /\ subnets' = r.subnets
       /\ ipam_disk' = r.ipam_disk
       /\ last' = IpamCall("import_from_csv", file, r.ret, Len(entries))
       /\ UNCHANGED <<scan, sessionVars>>

NextImport == ImportFromCsv

SpecImport == InitImport /\ [][NextImport]_vars

----------------------------------------------------------------------------
(* Subnet scan *)

(* 10.0.0.0/26: 62 hosts, more than ScanMaxThreads *)
ScanNet == Str("v4", <<10, 0, 0, 0>>, "plain", 26)

Host1 == Str("v4", <<10, 0, 0, 1>>, "plain", NoPrefix)
Host62 == Str("v4", <<10, 0, 0, 62>>, "plain", NoPrefix)

(* the hosts that may answer a ping; every other host is silent *)
MayAnswer == { Host62, Ip5 }

(* ip_range of line 273 *)
scan_range == scan.ip_range

(* the worker of this address is kept by address *)
kept_by_address(ip) == ip \in MayAnswer \/ ip \in Keys(entries)

(* what the caller of scan_subnet passed and got back, the entries the
   manager held at the call, and how many threads the call started and how
   often it called save_data *)
ScanCall(op, cidr, ret, before, dispatched, saves) ==
  [ op |-> op, arg |-> cidr, ret |-> Returned(ret), before |-> before,
    dispatched |-> dispatched, saves |-> saves ]

(* one subnet is registered and no scan is running; no entry is stored, or
   two entries were added by hand: one of a host that is down now and one
   of a host that may answer *)
InitScan ==
  /\ SessionsNotStarted
  /\ \E loaded \in BOOLEAN :
       LET r1 == add_subnet(<<>>, <<>>, NoIpamFiles,
                            Subnet(ScanNet, Word("lab"), EmptyStr))
           r2 == add_ip_entry(r1.entries, r1.subnets, r1.ipam_disk,
                              IPAMEntry(Host1, ScanNet, Word("srv"), EmptyStr,
                                        Word("Active"), EmptyStr))
           r3 == add_ip_entry(r2.entries, r2.subnets, r2.ipam_disk,
                              IPAMEntry(Host62, EmptyStr, Word("gw"),
                                        Word("d"), Word("Reserved"),
                                        Word("a")))
           r == IF loaded THEN r3 ELSE r1
       IN /\ entries = r.entries
          /\ subnets = r.subnets
          /\ ipam_disk = r.ipam_disk
  /\ scan = ScanIdle
  /\ last = IpamCall("init", EmptyStr, Returned(TRUE), 0)

(* scan_subnet is called, once after the start: lines 232-276 *)
ScanSubnet ==
  /\ scan.pc = "idle"
  /\ last.op = "init"
  /\ \E cidr \in { ScanNet, NetA } :
       IF cidr \notin Keys(subnets)
         THEN /\ last' = ScanCall("scan_subnet", cidr, <<>>, entries, 0, 0)
              /\ UNCHANGED scan
         ELSE /\ scan' = [ ScanIdle EXCEPT
                              !.pc = "start",
                              !.cidr = cidr,
                              !.ip_range =
                                 get_ip_range(get_subnet(subnets, cidr)) ]
              /\ last' = ScanCall("scan_started", cidr, <<>>, entries, 0, 0)
  /\ UNCHANGED <<entries, subnets, ipam_disk, sessionVars>>

(* the thread of the next address is started: lines 277-281 *)
StartProbe ==
  /\ scan.pc = "start"
  /\ scan.started < Len(scan_range)
  /\ LET ip == scan_range[scan.started + 1]
     IN scan' = [ scan EXCEPT
                    !.pc = "throttle",
                    !.started = @ + 1,
                    !.silent = IF kept_by_address(ip) THEN @ ELSE @ + 1,
                    !.probing = IF kept_by_address(ip) THEN @ \cup {ip}
                                ELSE @ ]
  /\ UNCHANGED <<entries, subnets, ipam_disk, last, sessionVars>>

(* the test of the while loop of line 284 *)
Throttle ==
  /\ scan.pc = "throttle"
  /\ scan' = [ scan EXCEPT !.pc = IF thread_limit_reached(scan) THEN "sleep"
                                  ELSE "start" ]
  /\ UNCHANGED <<entries, subnets, ipam_disk, last, sessionVars>>

(* time.sleep(0.1) of line 285 returns *)
Wake ==
  /\ scan.pc = "sleep"
  /\ scan' = [ scan EXCEPT !.pc = "throttle" ]
  /\ UNCHANGED <<entries, subnets, ipam_disk, last, sessionVars>>

(* what the worker of an address may meet: a ping that fails, where
   gethostbyaddr is never called, or for a host that may answer a ping
   that succeeds and then, if the address is new, a lookup *)
NoLookup == LookupFailed("not called")

WorkerRuns(ip) ==
  { [ ping |-> p, lookup |-> NoLookup ] : p \in PingOutcomes \ {"ok"} }
    \cup (IF ip \in MayAnswer
            THEN { [ ping |-> "ok", lookup |-> l ] : l \in LookupOutcomes }
            ELSE {})

(* one of the counted workers ends *)
SilentProbeEnds ==
  /\ scan.silent > 0
  /\ LET ip == CHOOSE a \in Range(SubSeq(scan_range, 1, scan.started)) :
                 ~ kept_by_address(a)
     IN \E run \in WorkerRuns(ip) :
          LET r == ping_host(entries, ip, scan.cidr, run.ping, run.lookup,
                             now)
          IN /\ entries' = r.entries
             /\ scan' = [ scan EXCEPT
                            !.silent = @ - 1,
                            !.active_ips = IF r.appended THEN Append(@, ip)
                                           ELSE @ ]
  /\ UNCHANGED <<subnets, ipam_disk, last, sessionVars>>

(* the worker of an address that is kept ends *)
ProbeEnds ==
  \E ip \in scan.probing :
    \E run \in WorkerRuns(ip) :
      LET r == ping_host(entries, ip, scan.cidr, run.ping, run.lookup, now)
      IN /\ entries' = r.entries
         /\ scan' = [ scan EXCEPT
                        !.probing = @ \ {ip},
                        !.active_ips = IF r.appended THEN Append(@, ip)
                                       ELSE @ ]
         /\ UNCHANGED <<subnets, ipam_disk, last, sessionVars>>

(* every thread has been started and the loop of lines 288-289 ends *)
JoinThreads ==
  /\ scan.pc = "start"
  /\ scan.started = Len(scan_range)
  /\ threads_joined(scan)
  /\ scan' = [ scan EXCEPT !.pc = "save" ]
  /\ UNCHANGED <<entries, subnets, ipam_disk, last, sessionVars>>

(* self.save_data() of line 291 *)
SaveScan ==
  /\ scan.pc = "save"
  /\ ipam_disk' = save_data(entries, subnets)
  /\ scan' = [ scan EXCEPT !.pc = "return", !.saves = @ + 1 ]
  /\ UNCHANGED <<entries, subnets, last, sessionVars>>

(* return active_ips of line 292 *)
ScanReturns ==
  /\ scan.pc = "return"
  /\ last' = ScanCall("scan_subnet", scan.cidr, scan.active_ips, last.before,
                      scan.started, scan.saves)
  /\ scan' = ScanIdle
  /\ UNCHANGED <<entries, subnets, ipam_disk, sessionVars>>

NextScan ==
  \/ ScanSubnet
  \/ StartProbe
  \/ Throttle
  \/ Wake
  \/ SilentProbeEnds
  \/ ProbeEnds
  \/ JoinThreads
  \/ SaveScan
  \/ ScanReturns

SpecScan == InitScan /\ [][NextScan]_vars

(* The scan under the scheduling the threading module gives.  The thread
   that called scan_subnet is one sequential program: it keeps running and
   every sleep returns.  Every ping ends, by an answer or by the timeout of
   -W 1 / -w 500, so whenever workers are alive one of them ends. *)
CallingThread ==
  \/ StartProbe
  \/ Throttle
  \/ Wake
  \/ JoinThreads
  \/ SaveScan
  \/ ScanReturns

Workers ==
  \/ SilentProbeEnds
  \/ ProbeEnds

ScanFairness ==
  /\ WF_vars(CallingThread)
  /\ WF_vars(Workers)

SpecScanFair == InitScan /\ [][NextScan]_vars /\ ScanFairness

----------------------------------------------------------------------------
(* The configuration store *)

(* the files a start or a load may find: none, one that is no JSON, a
   document that is no object, a value for a key the defaults do not have,
   a number where the defaults have a section, a section the defaults do
   not have, an object where the defaults have a string, and a string for
   that key again *)
ConfigFiles ==
  { NoFile,
    NoJson,
    JsonFile(JInt(5)),
    JsonFile([ general |-> [ max_backups |-> JInt(3) ] ]),
    JsonFile([ general |-> JInt(5) ]),
    JsonFile([ extra |-> [ k |-> JStr("v") ] ]),
    JsonFile([ ui |-> [ theme |-> [ name |-> JStr("dark") ] ] ]),
    JsonFile([ ui |-> [ theme |-> JStr("light") ] ]) }

ConfigSections == { "general", "extra" }

ConfigKeys == { "max_backups", "k" }

ConfigDefault == JStr("default")

(* what the caller of the last ConfigManager operation passed and got
   back, and how many operations were called so far *)
ConfigCall(op, section, key, raised, value, n) ==
  [ op |-> op, section |-> section, key |-> key, raised |-> raised,
    value |-> value, n |-> n ]

(* a ConfigManager has just been constructed: the defaults, then load() *)
InitConfig ==
  /\ sessions = <<>>
  /\ session_file = NoFile
  /\ backups = <<>>
  /\ now = 0
  /\ streak = NoStreak
  /\ numSaves = 0
  /\ IpamNotStarted
  /\ config_file \in ConfigFiles
  /\ config = load(DefaultConfig, config_file)
  /\ last = ConfigCall("init", "", "", FALSE, ConfigDefault, 0)

ConfigFrame ==
  UNCHANGED <<sessions, session_file, backups, now, streak, numSaves,
              ipamVars>>

ConfigGet ==
  \E section \in ConfigSections, key \in ConfigKeys :
    LET r == get(config, section, key, ConfigDefault)
    IN /\ last' = ConfigCall("get", section, key, r.raised, r.value, last.n)
       /\ UNCHANGED <<config, config_file>>
       /\ ConfigFrame

ConfigSetValue ==
  \E section \in ConfigSections, key \in ConfigKeys :
    /\ last.n < MaxConfigOps
    /\ IF config_set_raises(config, section, key)
         THEN /\ last' = ConfigCall("set", section, key, TRUE, ConfigDefault,
                                    last.n + 1)
              /\ UNCHANGED config
         ELSE /\ last' = ConfigCall("set", section, key, FALSE,
                                    ConfigDefault, last.n + 1)
              /\ config' = config_set(config, section, key, JInt(1))
    /\ UNCHANGED config_file
    /\ ConfigFrame

ConfigLoad ==
  /\ last.n < MaxConfigOps
  /\ config' = load(config, config_file)
  /\ last' = ConfigCall("load", "", "", FALSE, ConfigDefault, last.n + 1)
  /\ UNCHANGED config_file
  /\ ConfigFrame

ConfigSave ==
  /\ last.n < MaxConfigOps
  /\ config_file' = save(config)
  /\ last' = ConfigCall("save", "", "", FALSE, ConfigDefault, last.n + 1)
  /\ UNCHANGED config
  /\ ConfigFrame

(* the user replaces the configuration file between two operations *)
ConfigFileWritten ==
  \E file \in ConfigFiles :
    /\ last.n < MaxConfigOps
    /\ file # config_file
    /\ config_file' = file
    /\ last' = ConfigCall("file", "", "", FALSE, ConfigDefault, last.n + 1)
    /\ UNCHANGED config
    /\ ConfigFrame

NextConfig ==
  \/ ConfigGet
  \/ ConfigSetValue
  \/ ConfigLoad
  \/ ConfigSave
  \/ ConfigFileWritten

SpecConfig == InitConfig /\ [][NextConfig]_vars

----------------------------------------------------------------------------
(* Both managers of one application.  MainWindow constructs a
   SessionManager and an IPAMManager that is handed the SessionManager
   (IPAMManager.__init__, line 113).  The operations are called one at a
   time; a scan runs to its end before the next call. *)

(* 192.168.1.4/30: the hosts 192.168.1.5 and 192.168.1.6 *)
LinkedNet == Str("v4", <<192, 168, 1, 4>>, "plain", 30)

(* the entry of 192.168.1.5 names the session "a" *)
LinkedEntry ==
  IPAMEntry(Ip5, LinkedNet, Word("h"), EmptyStr, Word("Reserved"), Word("a"))

OtherProfile == CHOOSE p \in Profiles : p.host = "h2"

(* a file of entries whose row links 192.168.1.5 to the session "b" *)
LinkedFile ==
  [ exists |-> TRUE,
    lines |-> << << Word("ip"), Word("subnet"), Word("session_name") >>,
                 << Ip5, LinkedNet, Word("b") >> >> ]

(* an earlier run stored the session "a", registered the subnet and added
   the entry linked to the session *)
InitLinked ==
  /\ session_file = [exists |-> TRUE, data |-> <<to_dict(FirstSession)>>]
  /\ sessions = _load_sessions(session_file)
  /\ backups = <<>>
  /\ config = DefaultConfig
  /\ config_file = NoFile
  /\ now = 0
  /\ streak = NoStreak
  /\ numSaves = 0
  /\ LET r1 == add_subnet(<<>>, <<>>, NoIpamFiles,
                          Subnet(LinkedNet, Word("lab"), EmptyStr))
         r2 == add_ip_entry(r1.entries, r1.subnets, r1.ipam_disk,
                            LinkedEntry)
     IN /\ entries = r2.entries
        /\ subnets = r2.subnets
        /\ ipam_disk = r2.ipam_disk
  /\ scan = ScanIdle
  /\ last = Call("init", <<>>, "ok", NoneSession, 0)

LinkedAddSession ==
  \E n \in FaultNames :
    LET session == NewSession(n, PlainProfile)
        r == add_session(sessions, session_file, backups, config, now,
                         session)
    IN /\ scan.pc = "idle"
       /\ Apply(r)
       /\ last' = Call("add", n, Status(r), session, 0)
       /\ streak' = NoStreak

LinkedUpdateSession ==
  \E n \in FaultNames :
    LET session == NewSession(n, OtherProfile)
        r == update_session(sessions, session_file, backups, config, now,
                            session)
    IN /\ scan.pc = "idle"
       /\ Apply(r)
       /\ last' = Call("update", n, Status(r), session, 0)
       /\ streak' = NoStreak

LinkedDeleteSession ==
  \E n \in FaultNames :
    LET r == delete_session(sessions, session_file, backups, config, now, n)
    IN /\ scan.pc = "idle"
       /\ Apply(r)
       /\ last' = Call("delete", n, Status(r), NoneSession, 0)
       /\ streak' = NoStreak

LinkedAddSubnet ==
  LET subnet == Subnet(LinkedNet, Word("lab"), EmptyStr)
      r == add_subnet(entries, subnets, ipam_disk, subnet)
  IN /\ scan.pc = "idle"
     /\ ApplyIpam(r)
     /\ last' = IpamCall("add_subnet", subnet, Returned(r.ret), Len(entries))

LinkedRemoveSubnet ==
  LET r == remove_subnet(entries, subnets, ipam_disk, LinkedNet)
  IN /\ scan.pc = "idle"
     /\ ApplyIpam(r)
     /\ last' = IpamCall("remove_subnet", LinkedNet, Returned(r.ret),
                         Len(entries))

LinkedAddEntry ==
  LET r == add_ip_entry(entries, subnets, ipam_disk, LinkedEntry)
  IN /\ scan.pc = "idle"
     /\ ApplyIpam(r)
     /\ last' = IpamCall("add_ip_entry", LinkedEntry, Returned(r.ret),
                         Len(entries))

LinkedRemoveEntry ==
  LET r == remove_ip_entry(entries, subnets, ipam_disk, Ip5)
  IN /\ scan.pc = "idle"
     /\ ApplyIpam(r)
     /\ last' = IpamCall("remove_ip_entry", Ip5, Returned(r.ret),
                         Len(entries))

LinkedImport ==
  LET r == import_from_csv(entries, subnets, ipam_disk, LinkedFile)
  IN /\ scan.pc = "idle"
     /\ ApplyIpam(r)
     /\ last' = IpamCall("import_from_csv", LinkedFile, r.ret, Len(entries))

LinkedExport ==
  /\ scan.pc = "idle"
  /\ last' = IpamCall("export_to_csv",
                      [ include_ips |-> TRUE, include_subnets |-> TRUE ],
                      export_to_csv(entries, subnets, TRUE, TRUE),
                      Len(entries))
  /\ UNCHANGED <<ipamVars, sessionVars>>

(* scan_subnet(cidr) is called: lines 232-276 *)
LinkedScan ==
  /\ scan.pc = "idle"
  /\ IF LinkedNet \notin Keys(subnets)
       THEN /\ last' = ScanCall("scan_subnet", LinkedNet, <<>>, entries, 0, 0)
            /\ UNCHANGED scan
       ELSE /\ scan' = [ ScanIdle EXCEPT
                           !.pc = "start",
                           !.cidr = LinkedNet,
                           !.ip_range =
                              get_ip_range(get_subnet(subnets, LinkedNet)) ]
            /\ last' = ScanCall("scan_started", LinkedNet, <<>>, entries,
                                0, 0)
  /\ UNCHANGED <<entries, subnets, ipam_disk, sessionVars>>

NextLinked ==
  \/ LinkedAddSession
  \/ LinkedUpdateSession
  \/ LinkedDeleteSession
  \/ LinkedAddSubnet
  \/ LinkedRemoveSubnet
  \/ LinkedAddEntry
  \/ LinkedRemoveEntry
  \/ LinkedImport
  \/ LinkedExport
  \/ LinkedScan
  \/ StartProbe
  \/ Throttle
  \/ SilentProbeEnds
  \/ ProbeEnds
  \/ JoinThreads
  \/ SaveScan
  \/ ScanReturns

SpecLinked == InitLinked /\ [][NextLinked]_vars

----------------------------------------------------------------------------
(* The session list of the main window: sessions are created and edited
   through SessionDialog and the list is filtered.  The hosts are names,
   no addresses, and the IPAM tab holds no entry for them, so
   add_session_to_ipam and update_session_in_ipam (main_window.py lines
   227-228 and 451-452) find nothing to write. *)

BrowseNames == { <<"a">>, <<"A", "b">> }

(* what get_session_data returns once accept() has let the dialog close:
   name, host and username are stripped and not empty *)
BrowseProfiles ==
  { [ host |-> <<"h", "1">>, username |-> "u", password |-> "",
      group |-> "", tags |-> <<>>, description |-> <<>>, key_file |-> "",
      params |-> "" ],
    [ host |-> <<"H", "2">>, username |-> "u", password |-> "",
      group |-> "g", tags |-> <<"t1">>, description |-> <<"a", " ", "B">>,
      key_file |-> "", params |-> "" ] }

SessionData == { [ name |-> n ] @@ p : n \in BrowseNames, p \in BrowseProfiles }

GroupArgs == { NotSupplied, Supplied(""), Supplied("g") }

TagArgs == { NotSupplied, Supplied("t1") }

TermArgs ==
  { NotSupplied, Supplied(<<" ">>), Supplied(<<"A">>), Supplied(<<"b">>),
    Supplied(<<"h", "2", " ">>) }

(* what the last handler was given and how it ended: the session selected
   in the tree as it was stored, and the session built from the dialog *)
EditCall(op, original, session, raised) ==
  [ op |-> op, original |-> original, session |-> session,
    raised |-> raised ]

FilterCall(group, tag, search_term, ret) ==
  [ op |-> "filter", group |-> group, tag |-> tag,
    search_term |-> search_term, ret |-> Returned(ret) ]

InitBrowse ==
  /\ SessionsNotStarted
  /\ IpamNotStarted
  /\ last = EditCall("init", NoneSession, NoneSession, FALSE)

(* the saves of this specification are not counted *)
BrowseFrame == UNCHANGED <<config, config_file, now, streak, numSaves, ipamVars>>

(* MainWindow._on_new_session: lines 205-239 *)
OnNewSession ==
  \E session_data \in SessionData :
    LET session == NewSession(session_data.name, session_data)
        r == add_session(sessions, session_file, backups, config, now,
                         session)
    IN /\ sessions' = r.sessions
       /\ session_file' = r.session_file
       /\ backups' = r.backups
       /\ last' = EditCall("new", NoneSession, session, r.raised)
       /\ BrowseFrame

(* MainWindow._on_edit_session for the session selected in the tree *)
OnEditSession ==
  \E session_name \in Keys(sessions), session_data \in SessionData :
    LET r == _on_edit_session(sessions, session_file, backups, config, now,
                              session_name, session_data)
    IN /\ sessions' = r.sessions
       /\ session_file' = r.session_file
       /\ backups' = r.backups
       /\ last' = EditCall("edit", get_session(sessions, session_name),
                           NewSession(session_data.name, session_data),
                           r.raised)
       /\ BrowseFrame

FilterSessions ==
  \E group \in GroupArgs, tag \in TagArgs, search_term \in TermArgs :
    /\ last' = FilterCall(group, tag, search_term,
                          filter_sessions(sessions, group, tag, search_term))
    /\ UNCHANGED <<sessions, session_file, backups>>
    /\ BrowseFrame

NextBrowse ==
  \/ OnNewSession
  \/ OnEditSession
  \/ FilterSessions

SpecBrowse == InitBrowse /\ [][NextBrowse]_vars

----------------------------------------------------------------------------
(* Vocabulary of the properties *)

SessionSet(d) == { d[i].val : i \in 1 .. Len(d) }

SavingOps == {"add", "update", "delete", "record", "save"}

(* the step is a call of operation op (the clock does not move in a call) *)
IsCall(op) == last'.op = op /\ now' = now

RepositoryUnchanged == UNCHANGED <<sessions, session_file, backups>>

(* the step is a call that ran save_sessions *)
IsSavingCall ==
  /\ last'.op \in SavingOps /\ last'.status = "ok"
  /\ now' = now /\ numSaves' = numSaves + 1

(* every backup file the step removed is older than every one it left *)
PrunedOldest ==
  \A d \in ((DOMAIN backups) \cup {strftime(now)}) \ DOMAIN backups' :
    \A e \in DOMAIN backups' : d < e

MaxBackupsNow ==
  config_get(config, "general", "max_backups", JInt(DefaultMaxBackups)).value

MutatingOps == {"add", "update", "delete", "record"}

(* what save_sessions writes for the sessions dict d *)
Written(d) ==
  [ exists |-> TRUE, data |-> [ i \in 1 .. Len(d) |-> to_dict(d[i].val) ] ]

----------------------------------------------------------------------------
(* C1: add_session with a name that is already stored fails with an error
   and changes neither the sessions dict (the stored session keeps every
   field, no other session changes) nor the session file nor the backups
   directory. *)
C1_AddDuplicateRejected ==
  [][ (IsCall("add") /\ last'.name \in Keys(sessions))
        => (last'.status = "error" /\ RepositoryUnchanged) ]_vars

C1_Witness ==
  /\ last.op = "add" /\ last.status = "error"
  /\ last.name \in Keys(sessions)
  /\ session_file # NoFile
  /\ backups # <<>>

(* C2 as stated: add succeeds for every session whose name is non-empty and
   not yet stored, and get_session then returns that session. *)
C2_Original ==
  [][ (IsCall("add") /\ last'.name # <<>> /\ last'.name \notin Keys(sessions))
        => (/\ last'.status = "ok"
            /\ get_session(sessions', last'.name) = last'.session) ]_vars

(* C2 amended: add succeeds for every session whose name is not empty, not
   only whitespace and not yet stored, and an immediately following
   get_session(S.name) returns a session equal to S field for field. *)
C2_AddThenGet ==
  [][ (/\ IsCall("add")
       /\ strip(last'.name) # <<>>
       /\ last'.name \notin Keys(sessions))
        => (/\ last'.status = "ok"
            /\ last'.session.name = last'.name
            /\ get_session(sessions', last'.name) = last'.session) ]_vars

C2_Witness ==
  /\ last.op = "add" /\ last.status = "ok"
  /\ Len(sessions) = 2
  /\ get_session(sessions, last.name) = last.session
  /\ last.session.key_file = "k.ppk"

(* C3: every stored session has a name that is neither empty nor only
   whitespace and is stored under the key equal to its own name. *)
C3_NonEmptyNames ==
  \A i \in 1 .. Len(sessions) :
    /\ strip(sessions[i].key) # <<>>
    /\ sessions[i].val.name = sessions[i].key

C3_Witness ==
  /\ last.op = "add" /\ last.status = "error" /\ last.name = <<" ">>
  /\ Len(sessions) = 2

(* C4: delete_session of a name that is not stored fails with an error and
   leaves the sessions dict, the session file and the backups unchanged. *)
C4_DeleteUnknownRejected ==
  [][ (IsCall("delete") /\ last'.name \notin Keys(sessions))
        => (last'.status = "error" /\ RepositoryUnchanged) ]_vars

C4_Witness ==
  /\ last.op = "delete" /\ last.status = "error"
  /\ last.name = <<"b">>
  /\ Keys(sessions) = { <<"a">> }
  /\ backups # <<>>

(* C5: update_session of a name that is not stored fails and changes
   nothing; otherwise the stored session is replaced by the given one, the
   set of stored names and every other session stay as they were, and the
   session file holds the new mapping. *)
C5_UpdateReplaces ==
  [][ IsCall("update") =>
        IF last'.name \notin Keys(sessions)
          THEN last'.status = "error" /\ RepositoryUnchanged
          ELSE /\ last'.status = "ok"
               /\ get_session(sessions', last'.name) = last'.session
               /\ Keys(sessions') = Keys(sessions)
               /\ \A m \in Keys(sessions) \ {last'.name} :
                    get_session(sessions', m) = get_session(sessions, m)
               /\ session_file' # NoFile
               /\ SessionSet(_load_sessions(session_file'))
                    = SessionSet(sessions') ]_vars

C5_Witness ==
  /\ last.op = "update" /\ last.status = "ok"
  /\ Len(sessions) = 2
  /\ last.session.host = "h2"
  /\ \E i \in 1 .. Len(sessions) : sessions[i].val.host = "h1"

(* C6 as stated: n consecutive record_connection calls on a stored session
   raise connection_count by exactly n and leave last_connection at the time
   of the last call, and connection_count never decreases under any
   repository operation. *)
StreakCounted ==
  streak.n > 0 =>
    /\ streak.name \in Keys(sessions)
    /\ get_session(sessions, streak.name).connection_count
         = streak.base + streak.n
    /\ get_session(sessions, streak.name).last_connection
         = isoformat(last.time)

NeverDecreases ==
  \A n \in Keys(sessions) \cap Keys(sessions') :
    get_session(sessions', n).connection_count
      >= get_session(sessions, n).connection_count

C6_Original == [][ StreakCounted' /\ NeverDecreases ]_vars

(* C6 amended: n consecutive record_connection calls on a stored session
   raise connection_count by exactly n and leave last_connection at the time
   of the last call, and connection_count never decreases under any
   repository operation other than update_session, which replaces the
   stored session, statistics included, by the one it is given. *)
C6_RecordConnection ==
  [][ StreakCounted' /\ (~ IsCall("update") => NeverDecreases) ]_vars

C6_Witness ==
  /\ streak.n = 2
  /\ last.op = "record" /\ last.time = 2
  /\ get_session(sessions, streak.name).connection_count = 2
  /\ get_session(sessions, streak.name).last_connection = isoformat(2)

(* C7: saving the repository and loading the session file into a fresh
   SessionManager yields the same set of sessions, field for field. *)
C7_RoundTrip ==
  LET saved == save_sessions(sessions, session_file, backups, config, now)
  IN /\ SessionSet(_load_sessions(saved.session_file)) = SessionSet(sessions)
     /\ Keys(_load_sessions(saved.session_file)) = Keys(sessions)

C7_Witness ==
  /\ last.op = "reload"
  /\ Len(sessions) = 2
  /\ \E i \in 1 .. Len(sessions) :
       /\ sessions[i].val.connection_count > 0
       /\ sessions[i].val.key_file = "k.ppk"
       /\ sessions[i].val.tags = <<"t1", "t2">>

(* C8: after every save, whatever max_backups k >= 0 is configured, the
   backups directory holds at most k files, and the files pruning deleted
   are the oldest ones. *)
C8_RetentionBound ==
  [][ IsSavingCall =>
        /\ Cardinality(DOMAIN backups') <= MaxBackupsNow
        /\ PrunedOldest ]_vars

(* C9: after N saves under max_backups = k with k < N, exactly k backup
   files remain and they are the k most recent ones, also when saves fall
   into the same clock second. *)
C9_RetentionCount ==
  [][ (IsSavingCall /\ numSaves' > MaxBackupsNow) =>
        /\ Cardinality(DOMAIN backups') = MaxBackupsNow
        /\ PrunedOldest ]_vars

(* C10: a save that finds a session file copies it to the backups directory
   before it overwrites it: the backup carrying this save's timestamp holds
   the content the session file had just before the save. *)
C10_BackupBeforeOverwrite ==
  [][ (IsSavingCall /\ session_file # NoFile) =>
        /\ strftime(now) \in DOMAIN backups'
        /\ backups'[strftime(now)] = session_file.data ]_vars

C10_Witness ==
  /\ last.op \in SavingOps /\ last.status = "ok"
  /\ session_file # NoFile
  /\ strftime(now) \in DOMAIN backups
  /\ backups[strftime(now)] # session_file.data
  /\ Len(backups[strftime(now)]) > 0

(* C11: a failure while the backup is created or while an old backup is
   deleted never blocks the primary save: an add, update, delete or
   record_connection that reaches save_sessions under such a failure returns
   without an error, and the session file then holds the full current
   sessions dict. *)
C11_BackupFailureTolerated ==
  [][ (/\ last'.op \in MutatingOps /\ now' = now
       /\ last'.called_save
       /\ last'.fault # NoFault)
        => (/\ last'.status = "ok"
            /\ session_file' = Written(sessions')) ]_vars

C11_Witness ==
  /\ last.op \in MutatingOps /\ last.status = "ok"
  /\ last.called_save
  /\ last.fault.unlink = "PermissionError"
  /\ MaxBackupsNow > 0
  /\ Cardinality(DOMAIN backups) > MaxBackupsNow
  /\ session_file = Written(sessions)

(* C12: after each add, update, delete or record_connection that returned
   successfully on a working file system, the session file holds exactly
   the sessions of the sessions dict: a fresh SessionManager loading the
   file has the same names and the same sessions. *)
C12_PersistOnMutation ==
  (last.op \in MutatingOps /\ last.status = "ok") =>
    /\ session_file # NoFile
    /\ Keys(_load_sessions(session_file)) = Keys(sessions)
    /\ SessionSet(_load_sessions(session_file)) = SessionSet(sessions)

C12_Witness ==
  /\ last.op = "record" /\ last.status = "ok"
  /\ Len(sessions) = 2
  /\ \E i \in 1 .. Len(sessions) : sessions[i].val.connection_count = 1
  /\ Len(_load_sessions(session_file)) = 2
  /\ backups # <<>>

----------------------------------------------------------------------------
(* Vocabulary of the IPAM properties *)

(* the address lies in the block, counted in the last group: the blocks of
   the model keep their host bits there *)
AddressInBlock(a, net) ==
  LET n == Len(net.groups)
  IN /\ a.version = net.version
     /\ \A i \in 1 .. n - 1 : a.groups[i] = net.groups[i]
     /\ a.groups[n] >= net.groups[n]
     /\ a.groups[n] <= net.groups[n] + num_addresses(net) - 1

(* the address is one a host of the block can use: for an IPv4 block of more
   than two addresses, neither the network nor the broadcast address *)
AddressUsable(a, net) ==
  LET n == Len(net.groups)
  IN /\ AddressInBlock(a, net)
     /\ (net.version = 4 /\ num_addresses(net) > 2) =>
          /\ a.groups[n] # net.groups[n]
          /\ a.groups[n] # net.groups[n] + num_addresses(net) - 1

EntrySet(d) == { d[i].val : i \in 1 .. Len(d) }

(* C13: remove_subnet(cidr) on a registered CIDR returns true, removes the
   subnet and every entry whose subnet field equals cidr, and leaves every
   other entry and every other subnet as it was; on a CIDR that is not
   registered it returns false and changes nothing. *)
C13_RemoveSubnetCascades ==
  [][ last'.op = "remove_subnet" =>
        LET cidr == last'.arg
        IN IF cidr \in Keys(subnets)
             THEN /\ last'.ret = Returned(TRUE)
                  /\ Keys(subnets') = Keys(subnets) \ {cidr}
                  /\ \A c \in Keys(subnets') :
                       get_subnet(subnets', c) = get_subnet(subnets, c)
                  /\ Keys(entries')
                       = { ip \in Keys(entries) :
                             get_entry(entries, ip).subnet # cidr }
                  /\ \A ip \in Keys(entries') :
                       get_entry(entries', ip) = get_entry(entries, ip)
             ELSE /\ last'.ret = Returned(FALSE)
                  /\ UNCHANGED ipamVars ]_vars

C13_Witness ==
  /\ last.op = "remove_subnet" /\ last.ret = Returned(TRUE) /\ last.arg = NetA
  /\ last.n = 2
  /\ Len(entries) = 1 /\ entries[1].val.subnet = NetB
  /\ Keys(subnets) = {NetB}

(* C14: add_subnet returns false and leaves the registered subnet, its name
   and description included, and all other state unchanged when the CIDR is
   already registered; otherwise it inserts the subnet, leaves the other
   subnets and the entries as they were, writes the subnets to the subnets
   file and returns true. *)
C14_AddSubnet ==
  [][ last'.op = "add_subnet" =>
        LET subnet == last'.arg
        IN IF subnet.cidr \in Keys(subnets)
             THEN /\ last'.ret = Returned(FALSE)
                  /\ UNCHANGED ipamVars
             ELSE /\ last'.ret = Returned(TRUE)
                  /\ get_subnet(subnets', subnet.cidr) = subnet
                  /\ Keys(subnets') = Keys(subnets) \cup {subnet.cidr}
                  /\ \A c \in Keys(subnets) :
                       get_subnet(subnets', c) = get_subnet(subnets, c)
                  /\ entries' = entries
                  /\ ipam_disk'.subnets_file # NoFile
                  /\ Range(ipam_disk'.subnets_file.data)
                       = { Subnet_to_dict(s) : s \in EntrySet(subnets') } ]_vars

C14_Witness ==
  /\ last.op = "add_subnet" /\ last.ret = Returned(FALSE)
  /\ Len(subnets) = 2
  /\ get_subnet(subnets, last.arg.cidr).name # last.arg.name
  /\ get_subnet(subnets, last.arg.cidr).description # last.arg.description

(* C15: add_ip_entry never fails; when the address is already stored the
   stored entry is replaced by the new one and the number of entries stays
   the same, when the address is new the number of entries grows by one;
   every other entry stays as it was. *)
C15_AddEntryUpsert ==
  [][ last'.op = "add_ip_entry" =>
        LET entry == last'.arg
        IN /\ last'.ret = Returned(TRUE)
           /\ get_entry(entries', entry.ip) = entry
           /\ Len(entries')
                = IF entry.ip \in Keys(entries) THEN Len(entries)
                  ELSE Len(entries) + 1
           /\ \A ip \in Keys(entries) \ {entry.ip} :
                get_entry(entries', ip) = get_entry(entries, ip) ]_vars

C15_Witness ==
  /\ last.op = "add_ip_entry" /\ last.ret = Returned(TRUE)
  /\ last.n = 2 /\ Len(entries) = 2
  /\ last.arg.ip = Ip5 /\ last.arg.hostname = Word("h")
  /\ get_entry(entries, Ip5) = last.arg

(* C16: find_subnet_for_ip returns the first registered subnet, in the
   order the subnets were inserted, whose block contains the address; it
   returns None when no registered block contains it or when the string is
   no address; it raises nothing and changes nothing. *)
C16_FindFirstSubnet ==
  [][ last'.op = "find_subnet_for_ip" =>
        LET ip == last'.arg
            matches ==
              IF ip_address_raises(ip) THEN {}
              ELSE { i \in 1 .. Len(subnets) :
                       AddressInBlock(ip_address(ip), subnets[i].val.network) }
        IN /\ last'.ret = IF matches = {} THEN NoneValue
                          ELSE subnets[Min(matches)].val
           /\ UNCHANGED ipamVars ]_vars

C16_Witness ==
  /\ last.op = "find_subnet_for_ip" /\ last.arg = Ip130
  /\ Len(subnets) = 2
  /\ subnets[1].key = NetA /\ subnets[2].key = NetB
  /\ last.ret # NoneValue
  /\ last.ret.cidr = NetA

(* C17: get_usage_stats: total is the number of addresses of the block,
   less 2 for an IPv4 block of more than 2 addresses; used is the number of
   registered entries whose address lies in the usable range of the block;
   available is total - used. *)
C17_UsageStats ==
  [][ last'.op = "get_usage_stats" =>
        LET net == get_subnet(subnets, last'.arg).network
            n == num_addresses(net)
            in_range == { ip \in Keys(entries) :
                            /\ ~ ip_address_raises(ip)
                            /\ AddressUsable(ip_address(ip), net) }
        IN /\ last'.ret.total = IF net.version = 4 /\ n > 2 THEN n - 2 ELSE n
           /\ last'.ret.used = Cardinality(in_range)
           /\ last'.ret.available = last'.ret.total - last'.ret.used ]_vars

(* C18: import_from_csv on a file it can read reports success and counts
   in errors every malformed row, that is every row with an invalid CIDR,
   with an invalid address, or with neither a CIDR nor an address; no
   malformed row adds a subnet or an entry; every well-formed entry row is
   counted in added_ips. *)
C18_ImportClassifies ==
  [][ (last'.op = "import_from_csv" /\ last'.arg # NoFile) =>
        LET rows == DictReader(last'.arg.lines)
            cell(row, k) == dict_get(row, Word(k), NoneValue)
            is_subnet(row) == truthy(cell(row, "cidr"))
            is_entry(row) == ~ is_subnet(row) /\ truthy(cell(row, "ip"))
            good_subnets == { i \in 1 .. Len(rows) :
                                /\ is_subnet(rows[i])
                                /\ ~ ip_network_raises(cell(rows[i], "cidr")) }
            good_entries == { i \in 1 .. Len(rows) :
                                /\ is_entry(rows[i])
                                /\ ~ ip_address_raises(cell(rows[i], "ip")) }
            malformed == (1 .. Len(rows)) \ (good_subnets \cup good_entries)
        IN /\ last'.ret.success
           /\ last'.ret.errors = Cardinality(malformed)
           /\ last'.ret.added_ips = Cardinality(good_entries)
           /\ Keys(subnets') \subseteq
                Keys(subnets) \cup { cell(rows[i], "cidr") : i \in good_subnets }
           /\ Keys(entries') \subseteq
                Keys(entries) \cup { cell(rows[i], "ip") : i \in good_entries }
      ]_vars

(* C19: export_to_csv writes the subnets section exactly when subnets are
   requested and there is one, the entries section exactly when entries are
   requested and there is one, the subnets section before the entries
   section, and the blank separator line exactly when both sections are in
   the file. *)
C19_ExportSections ==
  [][ last'.op = "export_to_csv" =>
        LET lines == last'.ret.file.lines
            at(l) == { i \in 1 .. Len(lines) : lines[i] = l }
            has_subnets == at(SubnetFieldnames) # {}
            has_entries == at(EntryFieldnames) # {}
        IN /\ last'.ret.ok
           /\ has_subnets <=> (last'.arg.include_subnets /\ subnets # <<>>)
           /\ has_entries <=> (last'.arg.include_ips /\ entries # <<>>)
           /\ \A i \in at(SubnetFieldnames), j \in at(EntryFieldnames) : i < j
           /\ (at(<<>>) # {}) <=> (has_subnets /\ has_entries) ]_vars

(* C20: during scan_subnet at most 50 probe threads are alive in every
   state, and the scanner starts a thread only when fewer than 50 are. *)
C20_ScanThreadCap ==
  [][ /\ alive_threads(scan') <= ScanMaxThreads
      /\ scan'.started > scan.started
           => alive_threads(scan) < ScanMaxThreads ]_vars

C20_Witness ==
  /\ scan.pc = "sleep"
  /\ alive_threads(scan) = ScanMaxThreads
  /\ scan.started < Len(scan_range)
  /\ scan.started > ScanMaxThreads

----------------------------------------------------------------------------
(* Vocabulary of the scan properties *)

(* the step is the return of a scan_subnet call that found its subnet *)
IsScanReturn == last.op = "scan_started" /\ last'.op = "scan_subnet"

(* a worker ends in the step without adding its address to the results *)
IsNegativeProbe ==
  /\ alive_threads(scan') < alive_threads(scan)
  /\ scan'.active_ips = scan.active_ips

(* the number of host addresses of the subnet the last call named *)
ScannedHosts ==
  IF last.arg \in Keys(subnets)
    THEN Len(get_ip_range(get_subnet(subnets, last.arg)))
    ELSE 0

(* C21: when scan_subnet returns, every address of the returned list has an
   entry with status Active and a last_seen taken during the scan; an entry
   the address had before is the same entry with these two fields updated,
   a new one names the scanned CIDR as its subnet and carries the name the
   lookup found, or no name when the lookup failed, whatever the failure. *)
C21_ScanMerge ==
  [][ IsScanReturn =>
        \A i \in 1 .. Len(scan.active_ips) :
          LET a == scan.active_ips[i]
              e == get_entry(entries', a)
              old == get_entry(last.before, a)
          IN /\ a \in Keys(entries')
             /\ e.status = Word("Active")
             /\ e.last_seen = time_time(now)
             /\ IF a \in Keys(last.before)
                  THEN e = [ old EXCEPT !.status = e.status,
                                        !.last_seen = e.last_seen ]
                  ELSE /\ e.ip = a
                       /\ e.subnet = scan.cidr
                       /\ e.hostname \in { l.name : l \in LookupOutcomes } ]_vars

(* C22: a worker whose probe fails leaves the entries and the results as
   they are; when scan_subnet returns, every entry whose address is not in
   the returned list is the entry it was at the call, no entry was created
   for such an address, and a scan that returns the empty list leaves the
   entries exactly as they were. *)
C22_NegativeProbes ==
  [][ /\ IsNegativeProbe => entries' = entries
      /\ IsScanReturn =>
           LET active == Range(scan.active_ips)
           IN /\ \A k \in Keys(last.before) \ active :
                   get_entry(entries', k) = get_entry(last.before, k)
              /\ Keys(entries') \ Keys(last.before) \subseteq active
              /\ active = {} => entries' = last.before ]_vars

C22_Witness ==
  /\ last.op = "scan_subnet"
  /\ last.arg \in Keys(subnets)
  /\ last.ret = Returned(<<>>)
  /\ last.dispatched = ScannedHosts
  /\ last.before # <<>>
  /\ entries = last.before

(* C23: once the scan saves, no worker is alive; the entries do not change
   between the save and the return; the files are written only by that
   save; and a scan_subnet call that found its subnet returns with every
   thread it started finished, after exactly one save, with the files
   holding the entries and subnets of the manager. *)
C23_JoinBarrier ==
  [][ /\ scan'.pc \in {"save", "return"} => alive_threads(scan') = 0
      /\ scan.pc = "return" => entries' = entries
      /\ ipam_disk' # ipam_disk => scan.pc = "save"
      /\ IsScanReturn =>
           /\ alive_threads(scan) = 0
           /\ last'.dispatched = Len(scan_range)
           /\ last'.saves = 1
           /\ ipam_disk = save_data(entries, subnets) ]_vars

C23_Witness ==
  /\ last.op = "scan_subnet"
  /\ last.saves = 1
  /\ last.ret = Returned(<<Host62>>)
  /\ ipam_disk = save_data(entries, subnets)

(* C24: with every step of the calling thread and every end of a worker
   weakly fair, a scan_subnet call that found its subnet returns, having
   started a thread for every host address of the subnet, and the wait
   loop of the thread limit is always left again. *)
C24_ScanTerminates ==
  /\ (last.op = "scan_started")
       ~> (last.op = "scan_subnet" /\ last.dispatched = ScannedHosts)
  /\ (scan.pc = "sleep") ~> (scan.pc = "start")

C24_Witness ==
  /\ last.op = "scan_subnet"
  /\ last.arg \in Keys(subnets)
  /\ last.dispatched = ScannedHosts
  /\ last.dispatched > ScanMaxThreads

----------------------------------------------------------------------------
(* Vocabulary of the configuration properties *)

(* the configuration holds a value under the section and the key *)
Stored(cfg, section, key) ==
  /\ section \in DOMAIN cfg
  /\ isinstance_dict(cfg[section])
  /\ key \in DOMAIN cfg[section]

(* res is mem overlaid key by key with file *)
RECURSIVE IsOverlay(_, _, _)
IsOverlay(mem, file, res) ==
  /\ DOMAIN res = DOMAIN mem \cup DOMAIN file
  /\ \A k \in DOMAIN res :
       IF k \notin DOMAIN file THEN res[k] = mem[k]
       ELSE IF k \notin DOMAIN mem THEN res[k] = file[k]
       ELSE IF isinstance_dict(mem[k]) /\ isinstance_dict(file[k])
         THEN isinstance_dict(res[k]) /\ IsOverlay(mem[k], file[k], res[k])
       ELSE res[k] = file[k]

(* C25: get never raises; it returns the stored value when the section and
   the key are present and the default of the caller otherwise, whatever
   was set, loaded or saved before. *)
C25_GetNeverFails ==
  [][ last'.op = "get" =>
        /\ ~ last'.raised
        /\ last'.value =
             IF Stored(config, last'.section, last'.key)
               THEN config[last'.section][last'.key]
               ELSE ConfigDefault ]_vars

(* C26: load never raises; when the file holds a JSON object the
   configuration after it is the configuration before it overlaid key by
   key with the object (two objects under one key are overlaid in turn,
   otherwise the value of the file stands; keys of one side only are
   kept); when the file is absent, is no JSON or is no object the
   configuration is what it was. *)
C26_MergeOnLoad ==
  [][ last'.op = "load" =>
        /\ ~ last'.raised
        /\ IF config_file.exists /\ config_file.parses
                /\ isinstance_dict(config_file.data)
             THEN IsOverlay(config, config_file.data, config')
             ELSE config' = config ]_vars

C26_Witness ==
  /\ last.op = "load"
  /\ config_file = JsonFile([ general |-> [ max_backups |-> JInt(3) ] ])
  /\ Stored(config, "general", "max_backups")
  /\ Stored(config, "general", "putty_path")
  /\ Stored(config, "extra", "k")
  /\ Stored(config, "ui", "theme")

----------------------------------------------------------------------------
SessionOps == {"add", "update", "delete"}

IpamOps ==
  { "add_subnet", "remove_subnet", "add_ip_entry", "remove_ip_entry",
    "import_from_csv", "export_to_csv", "scan_started", "scan_subnet" }

(* C27: a call of add_session, update_session or delete_session leaves the
   entries, the subnets and the IPAM files as they were, and a call of an
   IPAMManager operation (add or remove a subnet or an entry, import,
   export, and every step of a scan) leaves the sessions dict and the
   session file as they were. *)
C27_NoCrossMutation ==
  [][ /\ last'.op \in SessionOps
        => UNCHANGED <<entries, subnets, ipam_disk>>
      /\ last'.op \in IpamOps
        => UNCHANGED <<sessions, session_file, backups>> ]_vars

(* the session "a" has been deleted and the entry of 192.168.1.5 still
   names it *)
C27_Witness ==
  /\ last.op = "delete" /\ last.status = "ok" /\ last.name = <<"a">>
  /\ <<"a">> \notin Keys(sessions)
  /\ Ip5 \in Keys(entries)
  /\ get_entry(entries, Ip5).session_name = Word("a")

----------------------------------------------------------------------------
(* the text t, compared without regard to case, is a part of the text f *)
IsPartOf(t, f) ==
  \E i \in 0 .. Len(f) : \E j \in i .. Len(f) :
    lower(SubSeq(f, i + 1, j)) = lower(t)

InSomeField(t, s) ==
  IsPartOf(t, s.name) \/ IsPartOf(t, s.host) \/ IsPartOf(t, s.description)

(* the step is a call of filter_sessions that returned every stored session
   in Kept once and nothing else, and changed no state *)
FilterReturned(Kept(_)) ==
  /\ Range(last'.ret.value) = { s \in SessionSet(sessions) : Kept(s) }
  /\ Len(last'.ret.value) = Cardinality(Range(last'.ret.value))
  /\ UNCHANGED <<sessions, session_file, backups, config, config_file,
                 ipamVars>>

(* C28 as stated: every argument that is passed is a predicate, and the
   search term is compared as it was passed. *)
C28_Original ==
  [][ last'.op = "filter" =>
        LET kept(s) ==
              /\ last'.group.supplied => s.group = last'.group.text
              /\ last'.tag.supplied => last'.tag.text \in Range(s.tags)
              /\ last'.search_term.supplied
                   => InSomeField(last'.search_term.text, s)
        IN FilterReturned(kept) ]_vars

(* C28: filter_sessions returns exactly the stored sessions that satisfy
   every predicate in force at once and changes no state.  group and tag
   are in force when the argument is passed and not empty, and ask for an
   equal group and for a member of the tags.  search_term is in force when
   it is passed and has a character that is no blank, and asks that the
   term without its leading and trailing blanks is, without regard to case,
   a part of the name, the host or the description. *)
C28_Filter ==
  [][ last'.op = "filter" =>
        LET term == last'.search_term
            kept(s) ==
              /\ (last'.group.supplied /\ last'.group.text # "")
                   => s.group = last'.group.text
              /\ (last'.tag.supplied /\ last'.tag.text # "")
                   => last'.tag.text \in Range(s.tags)
              /\ (term.supplied /\ strip(term.text) # <<>>)
                   => InSomeField(strip(term.text), s)
        IN FilterReturned(kept) ]_vars

(* two sessions are stored and a filter by group, tag and a search term in
   upper case returned one of them *)
C28_Witness ==
  /\ last.op = "filter"
  /\ last.group = Supplied("g") /\ last.tag = Supplied("t1")
  /\ last.search_term = Supplied(<<"A">>)
  /\ Len(sessions) = 2
  /\ Len(last.ret.value) = 1
  /\ last.ret.value[1].name = <<"A", "b">>

----------------------------------------------------------------------------
OnDisk(s) == session_file.exists /\ to_dict(s) \in Range(session_file.data)

(* C29: when the edit handler has ended, the session built from the dialog
   is stored or the session that was edited is still stored, in memory and
   in the session file. *)
C29_EditNeverLoses ==
  (last.op = "edit") =>
     \/ last.session \in SessionSet(sessions) /\ OnDisk(last.session)
     \/ last.original \in SessionSet(sessions) /\ OnDisk(last.original)

----------------------------------------------------------------------------
SubnetRows(d) == { Subnet_to_dict(d[i].val) : i \in 1 .. Len(d) }

EntryRows(d) ==
  { [ ip |-> d[i].val.ip, subnet |-> d[i].val.subnet,
      hostname |-> d[i].val.hostname, description |-> d[i].val.description,
      status |-> d[i].val.status, session_name |-> d[i].val.session_name ] :
      i \in 1 .. Len(d) }

(* C30: import_from_csv, called on an empty repository with the file that
   export_to_csv wrote with both sections for a repository with a subnet
   and an entry, counts no error and leaves the subnets and the entries of
   the exported repository, and no others. *)
C30_CsvRoundTrip ==
  [][ ( /\ last'.op = "import_from_csv"
        /\ entries = <<>> /\ subnets = <<>>
        /\ last'.arg = export_to_csv(ExportedRepository.entries,
                                     ExportedRepository.subnets,
                                     TRUE, TRUE).file )
      => /\ last'.ret.success
         /\ last'.ret.errors = 0
         /\ SubnetRows(subnets') = SubnetRows(ExportedRepository.subnets)
         /\ EntryRows(entries') = EntryRows(ExportedRepository.entries) ]_vars

====
